---- MODULE Spec2Model ----
(***************************************************************************)
(* State-machine model of ve-it-tips-webapp: the steps detail page (the     *)
(* recently-viewed list, the per-tip checklist kept in localStorage, the   *)
(* checkbox / checklist-button handlers of initStepsPage), the CSV parser, *)
(* fetchCSVData with its retries as the detail page and the main page      *)
(* call it, parseSteps, and the main page's start-up, search box and       *)
(* category filter.                                                        *)
(* Sequences are 1-indexed here; step i of the source is index i + 1.      *)
(***************************************************************************)
EXTENDS Integers, Sequences, FiniteSets, TLC

VARIABLES
    mode,             \* behaviour of window.localStorage: "ok", "quota" (setItem throws), "blocked" (every access throws)
    localStorage,     \* storage key -> stored item (the JSON text, by its shape)
    sessionHasRecent, \* sessionStorage flag 've-it-tips-has-recent'
    clock,            \* number of page views so far; the source of viewedAt
    viewed,           \* ids of the tips viewed so far
    tipId,            \* id of the tip the detail page shows (0: no page loaded)
    checked,          \* checkbox.checked of every step
    disabled,         \* checkbox.disabled of every step
    completed,        \* class 'completed' on the li of every step
    listEnabled,      \* class 'checklist-enabled' on the list
    progressText,     \* progressEl.textContent
    progressShown,    \* progressEl.style.display is not 'none'
    uncaught,         \* the last handler was ended by an exception nobody caught
    lastEvent,        \* the handler that ran last and how it ended ("reenable": an enable right after a disable)
    lastIdx,          \* the step of the last change event (0: none)
    normIn,           \* the array normalizeSequentialState was first given (SpecNormalize)
    normArr,          \* its current value: the result of the last application
    normRuns,         \* number of applications so far
    csvIn,            \* the CSV text the parser was first given (SpecParse)
    csvCurrent,       \* the CSV text parsed last
    csvFields,        \* the table csvIn was written from (<<>>: csvIn is arbitrary text)
    csvRows,          \* parseCSVRows(csvCurrent)
    csvData,          \* parseCSV(csvCurrent)
    csvRuns,          \* number of texts parsed so far
    page,             \* the page whose script runs: "steps" (detail page), "index" (main page), "none"
    urlId,            \* the id parameter of the detail page's URL ("": none)
    phase,            \* where fetchCSVData stands: "idle", "headers", "body", "errbody", "backoff", "done"
    attempt,          \* the loop variable of fetchCSVData (0: not called yet)
    timers,           \* attempts whose abort timer is armed
    fired,            \* the abort timers that fired: which one, during which attempt, at which phase
    outcomes,         \* how each attempt so far ended
    waits,            \* the backoff delays slept so far, in ms
    settled,          \* how the call of fetchCSVData ended: "pending", "returned", "thrown"
    docTitle,         \* stepsIssueTitle.textContent of the detail page
    stepsError,       \* the message showStepsError put into stepsErrorContainer ("": none)
    container,        \* cardsContainer.innerHTML of the main page, as a sequence of text pieces
    writes,           \* every content assigned to cardsContainer.innerHTML so far, in order
    allTips,          \* the rows the page got from fetchCSVData
    listening,        \* initializeEventListeners has run
    stepsIn,          \* the Steps field parseSteps was given (SpecSteps)
    stepsOut,         \* parseSteps(stepsIn)
    stepsAgain,       \* parseSteps of the steps of stepsOut joined with newlines
    stepsRuns,        \* number of calls of parseSteps so far
    readyState,       \* document.readyState (SpecIndex)
    dispatched,       \* DOMContentLoaded has been dispatched
    onLoaded,         \* the listeners registered for DOMContentLoaded
    inits,            \* number of calls of init so far
    awaiting,         \* number of runs of init suspended at await fetchCSVData()
    filteredTips,     \* the rows the main page shows
    searchValue,      \* searchInput.value
    categoryValue,    \* categoryFilter.value
    listeners,        \* number of runs of initializeEventListeners so far
    searchTimers,     \* searchTimeout of every run: <<>> (not pending) or <<ms left>>
    passes,           \* the deferred filter passes pending, in the order they were set
    debounced,        \* calls of filterTips by a search timer since the last input event
    events,           \* number of input and change events so far
    frames            \* the handler calls that have made their read and not yet their write (SpecHandlers)

vars == <<mode, localStorage, sessionHasRecent, clock, viewed, tipId, checked,
          disabled, completed, listEnabled, progressText, progressShown,
          uncaught, lastEvent, lastIdx, normIn, normArr, normRuns,
          csvIn, csvCurrent, csvFields, csvRows, csvData, csvRuns,
          page, urlId, phase, attempt, timers, fired, outcomes, waits, settled,
          docTitle, stepsError, container, writes, allTips, listening,
          stepsIn, stepsOut, stepsAgain, stepsRuns,
          readyState, dispatched, onLoaded, inits, awaiting, filteredTips,
          searchValue, categoryValue, listeners, searchTimers, passes, debounced, events,
          frames>>

pageVars == <<tipId, checked, disabled, completed, listEnabled, progressText,
              progressShown, uncaught, lastEvent, lastIdx>>

normVars == <<normIn, normArr, normRuns>>

csvVars == <<csvIn, csvCurrent, csvFields, csvRows, csvData, csvRuns>>

fetchVars == <<page, urlId, phase, attempt, timers, fired, outcomes, waits,
               settled, docTitle, stepsError, container, writes, allTips, listening>>

stepsVars == <<stepsIn, stepsOut, stepsAgain, stepsRuns>>

indexVars == <<readyState, dispatched, onLoaded, inits, awaiting, filteredTips,
               searchValue, categoryValue, listeners, searchTimers, passes, debounced, events>>

handlerVars == <<frames>>

otherVars == <<stepsVars, indexVars, handlerVars>>

----------------------------------------------------------------------------
(* Bounds of the model *)

NumTips == 2
MaxSteps == 3
MaxStored == 3
MaxLoads == 1
MaxViews == 13
MaxReviews == 2
MaxLen == 6
MaxRuns == 2
MaxText == 5
MaxCols == 2
MaxRows == 3
MaxQuoted == 4
MaxStepText == 5
MaxEvents == 3

(* Program constant: "Keep only last 10" *)
MaxRecent == 10

TipIds == 1..NumTips
Modes == {"ok", "quota", "blocked"}

BoolSeqs(maxLen) == UNION {[1..k -> BOOLEAN] : k \in 0..maxLen}

----------------------------------------------------------------------------
(* localStorage keys and items *)

getRecentlyViewedStorageKey == "ve-it-tips-recently-viewed:v1"

getChecklistStorageKey(t) == "ve-it-tips-checklist:" \o ToString(t) \o ":v1"

StorageKeys == {getChecklistStorageKey(t) : t \in TipIds} \cup {getRecentlyViewedStorageKey}

(* getItem returns null *)
NoItem == [kind |-> "none", items |-> <<>>]
(* text that JSON.parse rejects, or that parses to something that is no array *)
BadItem == [kind |-> "bad", items |-> <<>>]

(* JSON.stringify of a boolean array: the literals true / false *)
JSONStringify(checkedArray) ==
    [kind |-> "array",
     items |-> [i \in 1..Len(checkedArray) |-> IF checkedArray[i] THEN "true" ELSE "false"]]

(* Boolean(v) of a parsed JSON value *)
ToBoolean(v) == v \notin {"false", "null", "0"}

JsonAtoms == {"true", "false"}
StoredArrays == UNION {[1..k -> JsonAtoms] : k \in 0..MaxStored}
ChecklistItems == {NoItem, BadItem} \cup {[kind |-> "array", items |-> a] : a \in StoredArrays}

----------------------------------------------------------------------------
(* Checklist storage *)

AllFalse(n) == [i \in 1..n |-> FALSE]

(* localStorage.getItem / setItem throw in these modes *)
GetItemThrows == mode = "blocked"
SetItemThrows == mode \in {"quota", "blocked"}

(* loadChecklistState without the padding branch *)
loadChecklistStateNoPad(t, totalSteps) ==
    IF GetItemThrows
    THEN [threw |-> FALSE, isNull |-> TRUE, arr |-> <<>>]
    ELSE LET raw == localStorage[getChecklistStorageKey(t)] IN
         IF raw.kind # "array"
         THEN [threw |-> FALSE, isNull |-> TRUE, arr |-> <<>>]
         ELSE LET arr == [i \in 1..Len(raw.items) |-> ToBoolean(raw.items[i])] IN
              [threw |-> FALSE, isNull |-> Len(arr) < totalSteps,
               arr |-> IF Len(arr) > totalSteps THEN SubSeq(arr, 1, totalSteps) ELSE arr]

(* loadChecklistState: null when nothing usable is stored or the read throws
   (caught inside); otherwise the stored values as booleans, cut or padded
   with false to totalSteps entries. *)
loadChecklistState(t, totalSteps) ==
    IF GetItemThrows
    THEN [threw |-> FALSE, isNull |-> TRUE, arr |-> <<>>]
    ELSE LET raw == localStorage[getChecklistStorageKey(t)] IN
         IF raw.kind # "array"
         THEN [threw |-> FALSE, isNull |-> TRUE, arr |-> <<>>]
         ELSE LET arr == [i \in 1..Len(raw.items) |-> ToBoolean(raw.items[i])] IN
              [threw |-> FALSE, isNull |-> FALSE,
               arr |-> IF Len(arr) > totalSteps THEN SubSeq(arr, 1, totalSteps)
                       ELSE IF Len(arr) < totalSteps
                            THEN arr \o AllFalse(totalSteps - Len(arr))
                            ELSE arr]

(* saveChecklistState writing the array under the key of every tip *)
saveChecklistStateAllKeys(t, checkedArray) ==
    IF SetItemThrows
    THEN [threw |-> FALSE, storage |-> localStorage]
    ELSE [threw |-> FALSE,
          storage |-> [k \in DOMAIN localStorage |->
                          IF k = getRecentlyViewedStorageKey THEN localStorage[k]
                          ELSE JSONStringify(checkedArray)]]

(* saveChecklistState that never reaches setItem *)
saveChecklistStateSkipped(t, checkedArray) ==
    [threw |-> FALSE, storage |-> localStorage]

(* saveChecklistState without its try / catch *)
saveChecklistStateUncaught(t, checkedArray) ==
    IF SetItemThrows
    THEN [threw |-> TRUE, storage |-> localStorage]
    ELSE [threw |-> FALSE,
          storage |-> [localStorage EXCEPT ![getChecklistStorageKey(t)] = JSONStringify(checkedArray)]]

(* saveChecklistState: writes the array under the tip's key; a throwing
   setItem is caught and ignored. *)
saveChecklistState(t, checkedArray) ==
    IF SetItemThrows
    THEN [threw |-> FALSE, storage |-> localStorage]
    ELSE [threw |-> FALSE,
          storage |-> [localStorage EXCEPT ![getChecklistStorageKey(t)] = JSONStringify(checkedArray)]]

(* The loop of normalizeSequentialState over the copy `normalized`. *)
RECURSIVE NormalizeLoop(_, _, _)
NormalizeLoop(normalized, i, foundFirstUnchecked) ==
    IF i > Len(normalized) THEN normalized
    ELSE IF foundFirstUnchecked
         THEN NormalizeLoop([normalized EXCEPT ![i] = FALSE], i + 1, TRUE)
         ELSE NormalizeLoop(normalized, i + 1, ~normalized[i])

(* normalizeSequentialState returning its argument *)
normalizeNothing(checkedArray) == checkedArray

(* normalizeSequentialState testing the entry before i in the argument
   instead of keeping the flag *)
normalizeByPredecessor(checkedArray) ==
    [i \in 1..Len(checkedArray) |-> checkedArray[i] /\ (i = 1 \/ checkedArray[i - 1])]

normalizeSequentialState(checkedArray) == NormalizeLoop(checkedArray, 1, FALSE)

(* checkedArray.filter(Boolean).length *)
CompletedCount(checkedArray) == Cardinality({i \in 1..Len(checkedArray) : checkedArray[i]})

(* updateProgress: the text put into progressEl *)
updateProgress(completedCount, total) ==
    ToString(completedCount) \o " of " \o ToString(total) \o " completed"

(* applyChecklistState: every checkbox takes Boolean(checkedArray?.[idx]) *)
applyChecklistState(checkboxes, checkedArray) ==
    [i \in 1..Len(checkboxes) |-> i <= Len(checkedArray) /\ checkedArray[i]]

(* First loop of syncSequentialAvailability: index of the first unchecked
   box, 0 when every box is checked (the source's -1). *)
FirstUncheckedIndex(boxes) ==
    IF \A i \in 1..Len(boxes) : boxes[i] THEN 0
    ELSE CHOOSE i \in 1..Len(boxes) : ~boxes[i] /\ \A j \in 1..(i - 1) : boxes[j]

(* syncSequentialAvailability without the cb.checked branch *)
syncOnlyFirstUnchecked(boxes) ==
    LET firstUncheckedIndex == FirstUncheckedIndex(boxes) IN
    [i \in 1..Len(boxes) |-> IF firstUncheckedIndex = 0 THEN FALSE ELSE i # firstUncheckedIndex]

(* syncSequentialAvailability: the disabled flag of every box *)
syncSequentialAvailability(boxes) ==
    LET firstUncheckedIndex == FirstUncheckedIndex(boxes) IN
    [i \in 1..Len(boxes) |->
        IF boxes[i] THEN FALSE
        ELSE IF firstUncheckedIndex = 0 THEN FALSE
        ELSE i # firstUncheckedIndex]

(* applyAndPersist: progress text of the boxes and the storage after saving them *)
applyAndPersist(boxes) ==
    LET saved == saveChecklistState(tipId, boxes) IN
    [text |-> updateProgress(CompletedCount(boxes), Len(boxes)),
     threw |-> saved.threw,
     storage |-> saved.storage]

(* The loop over the checkboxes that leaves them enabled *)
DisableNone(n) == [i \in 1..n |-> FALSE]

(* checkboxes.forEach(cb => { cb.disabled = true; }) *)
DisableAll(n) == [i \in 1..n |-> TRUE]

(* The check loop stopping one step early (i < idx - 1) *)
PreviousUncheckedShort(boxes, idx) == \E i \in 1..(idx - 2) : ~boxes[i]

(* Check branch of the change handler: some earlier step is unchecked *)
PreviousUnchecked(boxes, idx) == \E i \in 1..(idx - 1) : ~boxes[i]

(* The cascade loop starting one step late (i = idx + 2) *)
CascadeUncheckLate(boxes, idx) == [i \in 1..Len(boxes) |-> IF i > idx + 1 THEN FALSE ELSE boxes[i]]

(* Uncheck branch of the change handler: every later step is unchecked *)
CascadeUncheck(boxes, idx) == [i \in 1..Len(boxes) |-> IF i > idx THEN FALSE ELSE boxes[i]]

----------------------------------------------------------------------------
(* Recently viewed list *)

IssueOf(t) == "Issue " \o ToString(t)

(* loadRecentlyViewed: [] when nothing is stored or the read or parse throws *)
loadRecentlyViewed ==
    IF GetItemThrows THEN <<>>
    ELSE LET raw == localStorage[getRecentlyViewedStorageKey] IN
         IF raw.kind # "list" THEN <<>> ELSE raw.items

(* The filter keeping every entry *)
FilterOutNothing(recent, t) == recent

RECURSIVE FilterOutId(_, _)
FilterOutId(recent, t) ==
    IF recent = <<>> THEN <<>>
    ELSE IF Head(recent).id # t
         THEN <<Head(recent)>> \o FilterOutId(Tail(recent), t)
         ELSE FilterOutId(Tail(recent), t)

(* The new entry put at the end of the list (push for unshift) *)
RecentAfterViewAtEnd(recent, t, now) ==
    LET withNew == FilterOutId(recent, t) \o <<[id |-> t, issue |-> IssueOf(t), viewedAt |-> now]>> IN
    SubSeq(withNew, 1, IF Len(withNew) < MaxRecent THEN Len(withNew) ELSE MaxRecent)

(* The list saveRecentlyViewed builds: drop the id, put it in front, keep 10 *)
RecentAfterView(recent, t, now) ==
    LET withNew == <<[id |-> t, issue |-> IssueOf(t), viewedAt |-> now]>> \o FilterOutId(recent, t) IN
    SubSeq(withNew, 1, IF Len(withNew) < MaxRecent THEN Len(withNew) ELSE MaxRecent)

(* saveRecentlyViewed from the filter on, recent being what loadRecentlyViewed
   returned: storage and session flag afterwards; any throw is ignored *)
saveRecentlyViewedFrom(recent, t, now) ==
    IF SetItemThrows
    THEN [storage |-> localStorage, flag |-> sessionHasRecent]
    ELSE [storage |-> [localStorage EXCEPT ![getRecentlyViewedStorageKey] =
                          [kind |-> "list", items |-> RecentAfterView(recent, t, now)]],
          flag |-> TRUE]

(* saveRecentlyViewed: storage and session flag afterwards *)
saveRecentlyViewed(t, now) == saveRecentlyViewedFrom(loadRecentlyViewed, t, now)

----------------------------------------------------------------------------
(* CSV parsing. A text is a sequence of characters, each a one-character
   string; BOM stands for the code unit U+FEFF. *)

LF == "\n"
CR == "\r"
QUOTE == "\""
COMMA == ","
BOM == "BOM"

(* The characters of the model that String.prototype.trim removes *)
WhiteSpace == {" ", LF, CR, BOM}

RECURSIVE trimStart(_)
trimStart(text) ==
    IF text # <<>> /\ Head(text) \in WhiteSpace THEN trimStart(Tail(text)) ELSE text

RECURSIVE trimEnd(_)
trimEnd(text) ==
    IF text # <<>> /\ text[Len(text)] \in WhiteSpace
    THEN trimEnd(SubSeq(text, 1, Len(text) - 1))
    ELSE text

trim(text) == trimEnd(trimStart(text))

(* rows.push(currentRow), made only for a row with a field that is not blank *)
pushRow(rows, currentRow) ==
    IF Len(currentRow) > 0 /\ \E k \in 1..Len(currentRow) : trim(currentRow[k]) # <<>>
    THEN Append(rows, currentRow)
    ELSE rows

(* csvText[i] of the source, i counted from 1 here; "" past the end (undefined) *)
CharAt(csvText, i) == IF i \in 1..Len(csvText) THEN csvText[i] ELSE ""

(* A quote between quotes that no quote follows closes the field; one that a
   quote follows is read as closing as well *)
EscapedQuoteNever(inQuotes, nextChar) == FALSE

(* inQuotes && nextChar === '"': the first of two quotes inside a quoted field *)
EscapedQuote(inQuotes, nextChar) == inQuotes /\ nextChar = QUOTE

(* A CR that no LF follows is an ordinary character *)
StandaloneCRIgnored(inQuotes, char, nextChar) == FALSE

(* The else branch of char === '\r': a CR outside quotes that no LF follows *)
StandaloneCR(inQuotes, char, nextChar) == ~inQuotes /\ char = CR /\ nextChar # LF

(* The while loop of parseCSVRows from index i on, and the flush that follows it *)
RECURSIVE ScanCSV(_, _, _, _, _, _)
ScanCSV(csvText, i, rows, currentRow, currentField, inQuotes) ==
    IF i > Len(csvText)
    THEN IF currentField # <<>> \/ Len(currentRow) > 0
         THEN pushRow(rows, Append(currentRow, currentField))
         ELSE rows
    ELSE LET char == CharAt(csvText, i)
             nextChar == CharAt(csvText, i + 1)
         IN IF char = QUOTE
            THEN IF EscapedQuote(inQuotes, nextChar)
                 THEN ScanCSV(csvText, i + 2, rows, currentRow, Append(currentField, QUOTE), inQuotes)
                 ELSE ScanCSV(csvText, i + 1, rows, currentRow, currentField, ~inQuotes)
            ELSE IF ~inQuotes /\ char = COMMA
            THEN ScanCSV(csvText, i + 1, rows, Append(currentRow, currentField), <<>>, inQuotes)
            ELSE IF ~inQuotes /\ char = LF
            THEN ScanCSV(csvText, i + 1, pushRow(rows, Append(currentRow, currentField)),
                         <<>>, <<>>, inQuotes)
            ELSE IF ~inQuotes /\ char = CR /\ nextChar = LF
            THEN ScanCSV(csvText, i + 2, pushRow(rows, Append(currentRow, currentField)),
                         <<>>, <<>>, inQuotes)
            ELSE IF StandaloneCR(inQuotes, char, nextChar)
            THEN ScanCSV(csvText, i + 1, pushRow(rows, Append(currentRow, currentField)),
                         <<>>, <<>>, inQuotes)
            ELSE ScanCSV(csvText, i + 1, rows, currentRow, Append(currentField, char), inQuotes)

(* csvText without a leading byte order mark *)
StripBOM(csvText) ==
    IF Len(csvText) > 0 /\ csvText[1] = BOM THEN Tail(csvText) ELSE csvText

parseCSVRows(csvText) == ScanCSV(StripBOM(csvText), 1, <<>>, <<>>, <<>>, FALSE)

(* values.length === headers.length, replaced by "no longer than the header" *)
NotLongerThanHeader(values, headers) == Len(values) <= Len(headers)

(* values.length === headers.length *)
SameLength(values, headers) == Len(values) = Len(headers)

(* values[index] ? values[index].trim() : '' *)
ValueAt(values, index) == IF index \in 1..Len(values) THEN trim(values[index]) ELSE <<>>

(* The object headers.forEach fills: a later column of the same name overwrites
   an earlier one *)
RowObject(headers, values) ==
    [header \in {headers[j] : j \in 1..Len(headers)} |->
        LET index == CHOOSE j \in 1..Len(headers) :
                         /\ headers[j] = header
                         /\ \A k \in (j + 1)..Len(headers) : headers[k] # header
        IN ValueAt(values, index)]

(* The for loop of parseCSV from row i on *)
RECURSIVE DataRows(_, _, _, _)
DataRows(rows, headers, i, data) ==
    IF i > Len(rows) THEN data
    ELSE DataRows(rows, headers, i + 1,
                  IF SameLength(rows[i], headers)
                  THEN Append(data, RowObject(headers, rows[i]))
                  ELSE data)

parseCSV(csvText) ==
    IF csvText = <<>> \/ trim(csvText) = <<>> THEN <<>>
    ELSE LET rows == parseCSVRows(csvText) IN
         IF Len(rows) = 0 THEN <<>>
         ELSE DataRows(rows, [j \in 1..Len(rows[1]) |-> trim(rows[1][j])], 2, <<>>)

(* undefined, the value of a property an object does not have *)
Undefined == <<"undefined">>

(* row[name] *)
Field(row, name) == IF name \in DOMAIN row THEN row[name] ELSE Undefined

(* The characters of a text as one string *)
RECURSIVE Join(_)
Join(text) == IF text = <<>> THEN "" ELSE Head(text) \o Join(Tail(text))

----------------------------------------------------------------------------
(* parseSteps: the Steps field of a row as a list of steps *)

(* The bullet glyph U+2022, and the three characters its UTF-8 bytes read as
   in Windows-1252: U+00E2, U+20AC, U+00A2 *)
BULLET == "(U+2022)"

Digits == {"0", "1", "2", "3", "4", "5", "6", "7", "8", "9"}

(* The character class of the second replace: [-*U+2022] in script.js and the
   older steps.js, [-*U+00E2 U+20AC U+00A2] in the detail page's script *)
BulletClass ==
    IF page = "steps" THEN {"-", "*", "(U+00E2)", "(U+20AC)", "(U+00A2)"}
    ELSE {"-", "*", BULLET}

(* stepsString.split(/\n/), line being the piece read so far *)
RECURSIVE SplitLines(_, _)
SplitLines(stepsString, line) ==
    IF stepsString = <<>> THEN <<line>>
    ELSE IF Head(stepsString) = LF
         THEN <<line>> \o SplitLines(Tail(stepsString), <<>>)
         ELSE SplitLines(Tail(stepsString), Append(line, Head(stepsString)))

(* The length of the longest prefix of step made of digits *)
RECURSIVE LeadingDigits(_)
LeadingDigits(step) ==
    IF step # <<>> /\ Head(step) \in Digits THEN 1 + LeadingDigits(Tail(step)) ELSE 0

(* step.replace(/^\d+[\.\)]\s*/, '') *)
StripNumber(step) ==
    LET d == LeadingDigits(step)
    IN IF d >= 1 /\ Len(step) > d /\ step[d + 1] \in {".", ")"}
       THEN trimStart(SubSeq(step, d + 2, Len(step)))
       ELSE step

(* step.replace(/^[class]\s+/, '') *)
StripMarker(class, step) ==
    IF Len(step) >= 2 /\ step[1] \in class /\ step[2] \in WhiteSpace
    THEN trimStart(Tail(step))
    ELSE step

StripBullet(step) == StripMarker(BulletClass, step)

(* The callback of map *)
CleanStep(step) == trim(StripBullet(StripNumber(step)))

KeepStepAlways(step) == TRUE

(* The callback of the last filter: step.length > 0 *)
KeepStep(step) == Len(step) > 0

parseSteps(stepsString) ==
    IF stepsString = <<>> THEN <<>>
    ELSE LET lines == SelectSeq(SplitLines(stepsString, <<>>), LAMBDA step : trim(step) # <<>>)
             steps == [i \in 1..Len(lines) |-> CleanStep(lines[i])]
         IN SelectSeq(steps, KeepStep)

(* No CSV text has been given to the parser *)
CsvIdle ==
    /\ csvIn = <<>>
    /\ csvCurrent = <<>>
    /\ csvFields = <<>>
    /\ csvRows = <<>>
    /\ csvData = <<>>
    /\ csvRuns = 0

(* No page script has started and fetchCSVData has not been called *)
FetchIdle ==
    /\ page = "none"
    /\ urlId = <<>>
    /\ phase = "idle"
    /\ attempt = 0
    /\ timers = {}
    /\ fired = {}
    /\ outcomes = <<>>
    /\ waits = <<>>
    /\ settled = "pending"
    /\ docTitle = ""
    /\ stepsError = ""
    /\ container = <<>>
    /\ writes = <<>>
    /\ allTips = <<>>
    /\ listening = FALSE

(* parseSteps has not been called *)
StepsIdle ==
    /\ stepsIn = <<>>
    /\ stepsOut = <<>>
    /\ stepsAgain = <<>>
    /\ stepsRuns = 0

(* The main page is not open *)
IndexIdle ==
    /\ readyState = "loading"
    /\ dispatched = FALSE
    /\ onLoaded = {}
    /\ inits = 0
    /\ awaiting = 0
    /\ filteredTips = <<>>
    /\ searchValue = <<>>
    /\ categoryValue = <<>>
    /\ listeners = 0
    /\ searchTimers = <<>>
    /\ passes = <<>>
    /\ debounced = 0
    /\ events = 0

(* No handler is between its read and its write *)
HandlersIdle == frames = {}

OtherIdle == StepsIdle /\ IndexIdle /\ HandlersIdle

----------------------------------------------------------------------------
(* The detail page *)

(* What initStepsPage does with the row of tip t, of n parsed steps: the view
   is recorded, the steps are rendered unchecked and checklist mode starts
   disabled (the closing disableChecklist() call). *)
ShowTipFrom(recent, t, n) ==
    /\ LET saved == saveRecentlyViewedFrom(recent, t, clock + 1) IN
       /\ localStorage' = saved.storage
       /\ sessionHasRecent' = saved.flag
    /\ clock' = clock + 1
    /\ viewed' = viewed \cup {t}
    /\ tipId' = t
    /\ checked' = AllFalse(n)
    /\ completed' = AllFalse(n)
    /\ disabled' = DisableAll(n)
    /\ listEnabled' = FALSE
    /\ progressText' = ""
    /\ progressShown' = FALSE
    /\ uncaught' = FALSE
    /\ lastEvent' = "load"
    /\ lastIdx' = 0

ShowTip(t, n) == ShowTipFrom(loadRecentlyViewed, t, n)

(* initStepsPage for a tip the fetched sheet holds *)
initStepsPage(t, n) ==
    /\ clock < MaxLoads
    /\ ShowTip(t, n)
    /\ UNCHANGED <<mode, otherVars, normVars, csvVars, fetchVars>>

(* Click on the checklist button while checklist mode is off: enableChecklist *)
enableChecklist ==
    /\ Len(checked) > 0
    /\ ~listEnabled
    /\ listEnabled' = TRUE
    /\ progressShown' = TRUE
    /\ lastEvent' = IF lastEvent = "disable" THEN "reenable" ELSE "enable"
    /\ lastIdx' = 0
    /\ LET loaded == loadChecklistState(tipId, Len(checked)) IN
       IF loaded.threw
       THEN /\ uncaught' = TRUE
            /\ UNCHANGED <<checked, completed, disabled, progressText, localStorage>>
       ELSE LET state == normalizeSequentialState(
                             IF loaded.isNull THEN AllFalse(Len(checked)) ELSE loaded.arr)
                boxes == applyChecklistState(checked, state)
                done == applyAndPersist(boxes)
            IN /\ checked' = boxes
               /\ completed' = boxes
               /\ disabled' = syncSequentialAvailability(boxes)
               /\ progressText' = done.text
               /\ localStorage' = done.storage
               /\ uncaught' = done.threw
    /\ UNCHANGED <<mode, otherVars, sessionHasRecent, clock, viewed, tipId, normVars, csvVars, fetchVars>>

(* disableChecklist that also removes the tip's stored item *)
disableChecklistErasing ==
    /\ Len(checked) > 0
    /\ listEnabled
    /\ listEnabled' = FALSE
    /\ progressText' = ""
    /\ progressShown' = FALSE
    /\ disabled' = DisableAll(Len(checked))
    /\ uncaught' = FALSE
    /\ lastEvent' = "disable"
    /\ lastIdx' = 0
    /\ localStorage' = IF SetItemThrows THEN localStorage
                       ELSE [localStorage EXCEPT ![getChecklistStorageKey(tipId)] = NoItem]
    /\ UNCHANGED <<mode, otherVars, sessionHasRecent, clock, viewed, tipId,
                   checked, completed, normVars, csvVars, fetchVars>>

(* Click on the checklist button while checklist mode is on: disableChecklist *)
disableChecklist ==
    /\ Len(checked) > 0
    /\ listEnabled
    /\ listEnabled' = FALSE
    /\ progressText' = ""
    /\ progressShown' = FALSE
    /\ disabled' = DisableAll(Len(checked))
    /\ uncaught' = FALSE
    /\ lastEvent' = "disable"
    /\ lastIdx' = 0
    /\ UNCHANGED <<mode, otherVars, localStorage, sessionHasRecent, clock, viewed, tipId,
                   checked, completed, normVars, csvVars, fetchVars>>

(* A change event on step idx: the browser has flipped the box, then the
   listener runs. The listener never reads checkbox.disabled, so an event on
   a locked box (one the script or a label dispatches) is an input too. *)
checkboxChange(idx) ==
    /\ idx \in 1..Len(checked)
    /\ lastIdx' = idx
    /\ LET flipped == [checked EXCEPT ![idx] = ~checked[idx]] IN
       IF ~listEnabled
       THEN /\ checked' = [flipped EXCEPT ![idx] = FALSE]
            /\ lastEvent' = "ignored"
            /\ uncaught' = FALSE
            /\ UNCHANGED <<completed, disabled, progressText, localStorage>>
       ELSE IF flipped[idx] /\ PreviousUnchecked(flipped, idx)
       THEN /\ checked' = [flipped EXCEPT ![idx] = FALSE]
            /\ progressText' = "Complete previous steps first."
            /\ lastEvent' = "rejected"
            /\ uncaught' = FALSE
            /\ UNCHANGED <<completed, disabled, localStorage>>
       ELSE LET boxes == IF flipped[idx] THEN flipped ELSE CascadeUncheck(flipped, idx)
                done == applyAndPersist(boxes)
            IN /\ checked' = boxes
               /\ completed' = [i \in 1..Len(boxes) |->
                                   IF i = idx THEN boxes[i]
                                   ELSE IF ~flipped[idx] /\ i > idx THEN FALSE
                                   ELSE completed[i]]
               /\ disabled' = syncSequentialAvailability(boxes)
               /\ progressText' = done.text
               /\ localStorage' = done.storage
               /\ uncaught' = done.threw
               /\ lastEvent' = IF flipped[idx] THEN "check" ELSE "uncheck"
    /\ UNCHANGED <<mode, otherVars, sessionHasRecent, clock, viewed, tipId, listEnabled,
                   progressShown, normVars, csvVars, fetchVars>>

(* The browser before the page script runs: storage works, rejects writes
   or rejects every access; the key of at most one tip holds an item left by
   an earlier session (any array of up to MaxStored entries, or text that is
   no array); nothing has been viewed yet. *)
Init ==
    /\ mode \in Modes
    /\ \E t \in TipIds, item \in ChecklistItems :
          localStorage = [k \in StorageKeys |->
                             IF k = getChecklistStorageKey(t) THEN item ELSE NoItem]
    /\ sessionHasRecent = FALSE
    /\ clock = 0
    /\ viewed = {}
    /\ tipId = 0
    /\ checked = <<>>
    /\ completed = <<>>
    /\ disabled = <<>>
    /\ listEnabled = FALSE
    /\ progressText = ""
    /\ progressShown = FALSE
    /\ uncaught = FALSE
    /\ lastEvent = "none"
    /\ lastIdx = 0
    /\ normIn = <<>>
    /\ normArr = <<>>
    /\ normRuns = 0
    /\ CsvIdle
    /\ FetchIdle
    /\ OtherIdle

Next ==
    \/ \E t \in TipIds, n \in 0..MaxSteps : initStepsPage(t, n)
    \/ enableChecklist
    \/ disableChecklist
    \/ \E idx \in 1..MaxSteps : checkboxChange(idx)

Spec == Init /\ [][Next]_vars

----------------------------------------------------------------------------
(* The recently-viewed list on its own: calls of saveRecentlyViewed from an
   empty list. Ids are opaque, so new ids are taken in the order 1, 2, ...;
   an id viewed before may be viewed again MaxReviews times in all. *)

PageIdle ==
    /\ tipId = 0
    /\ checked = <<>>
    /\ completed = <<>>
    /\ disabled = <<>>
    /\ listEnabled = FALSE
    /\ progressText = ""
    /\ progressShown = FALSE
    /\ uncaught = FALSE
    /\ lastEvent = "none"
    /\ lastIdx = 0

NormIdle ==
    /\ normIn = <<>>
    /\ normArr = <<>>
    /\ normRuns = 0

InitRecent ==
    /\ mode \in Modes
    /\ localStorage = [k \in StorageKeys |-> NoItem]
    /\ sessionHasRecent = FALSE
    /\ clock = 0
    /\ viewed = {}
    /\ PageIdle
    /\ NormIdle
    /\ CsvIdle
    /\ FetchIdle
    /\ OtherIdle

RecordView(t) ==
    /\ clock < MaxViews
    /\ \/ t = Cardinality(viewed) + 1
       \/ t \in viewed /\ clock - Cardinality(viewed) < MaxReviews
    /\ LET saved == saveRecentlyViewed(t, clock + 1) IN
       /\ localStorage' = saved.storage
       /\ sessionHasRecent' = saved.flag
    /\ clock' = clock + 1
    /\ viewed' = viewed \cup {t}
    /\ UNCHANGED <<mode, otherVars, pageVars, normVars, csvVars, fetchVars>>

NextRecent == \E t \in 1..MaxViews : RecordView(t)

SpecRecent == InitRecent /\ [][NextRecent]_vars

----------------------------------------------------------------------------
(* normalizeSequentialState on its own: applied repeatedly to any boolean
   array of up to MaxLen entries. *)

InitNormalize ==
    /\ mode = "ok"
    /\ localStorage = [k \in StorageKeys |-> NoItem]
    /\ sessionHasRecent = FALSE
    /\ clock = 0
    /\ viewed = {}
    /\ PageIdle
    /\ normIn \in BoolSeqs(MaxLen)
    /\ normArr = normIn
    /\ normRuns = 0
    /\ CsvIdle
    /\ FetchIdle
    /\ OtherIdle

ApplyNormalize ==
    /\ normRuns < MaxRuns
    /\ normArr' = normalizeSequentialState(normArr)
    /\ normRuns' = normRuns + 1
    /\ UNCHANGED <<normIn, mode, otherVars, localStorage, sessionHasRecent, clock, viewed, pageVars,
                   csvVars, fetchVars>>

NextNormalize == ApplyNormalize

SpecNormalize == InitNormalize /\ [][NextNormalize]_vars

----------------------------------------------------------------------------
(* The CSV parser on its own: parseCSVRows and parseCSV applied to a text,
   then to the same text with one of its line endings written another way.
   The text is any text of up to MaxText characters, or a table written as
   CSV: a header of up to MaxCols columns and up to MaxRows rows of any
   width up to MaxCols + 1, or one row holding a quoted field of up to
   MaxQuoted characters. *)

CsvAlphabet == {"a", COMMA, LF, CR, QUOTE, " ", BOM}
QuotedAlphabet == {"a", COMMA, LF, CR, QUOTE}
LineEndings == {<<LF>>, <<CR, LF>>, <<CR>>}

Texts(alphabet, maxLen) == UNION {[1..k -> alphabet] : k \in 0..maxLen}

Cell(text, quoted) == [text |-> text, quoted |-> quoted]

(* The content of a quoted field as it is written: every quote doubled *)
RECURSIVE EscapeQuotes(_)
EscapeQuotes(text) ==
    IF text = <<>> THEN <<>>
    ELSE (IF Head(text) = QUOTE THEN <<QUOTE, QUOTE>> ELSE <<Head(text)>>)
         \o EscapeQuotes(Tail(text))

WriteCell(cell) ==
    IF cell.quoted THEN <<QUOTE>> \o EscapeQuotes(cell.text) \o <<QUOTE>> ELSE cell.text

RECURSIVE WriteRow(_)
WriteRow(cells) ==
    IF Len(cells) = 0 THEN <<>>
    ELSE IF Len(cells) = 1 THEN WriteCell(cells[1])
    ELSE WriteCell(cells[1]) \o <<COMMA>> \o WriteRow(Tail(cells))

RECURSIVE WriteCSV(_, _)
WriteCSV(table, eol) ==
    IF Len(table) = 0 THEN <<>>
    ELSE IF Len(table) = 1 THEN WriteRow(table[1])
    ELSE WriteRow(table[1]) \o eol \o WriteCSV(Tail(table), eol)

ColumnNames == <<"x", "y", "z", "u", "v", "w">>

HeaderRow(width) == [j \in 1..width |-> Cell(<<ColumnNames[j]>>, FALSE)]

(* Row i of a table: every cell holds the row's number *)
DataRow(i, width) == [j \in 1..width |-> Cell(<<ToString(i)>>, FALSE)]

PlainTables ==
    UNION {{<<HeaderRow(w)>> \o [i \in 1..n |-> DataRow(i, widths[i])] :
                widths \in [1..n -> 1..(MaxCols + 1)]} :
           w \in 1..MaxCols, n \in 0..MaxRows}

PlainCells == {<<>>, <<Cell(<<"a">>, FALSE)>>}

QuotedTables ==
    {<<before \o <<Cell(q, TRUE)>> \o after>> :
        q \in Texts(QuotedAlphabet, MaxQuoted), before \in PlainCells, after \in PlainCells}

InitParse ==
    /\ mode = "ok"
    /\ localStorage = [k \in StorageKeys |-> NoItem]
    /\ sessionHasRecent = FALSE
    /\ clock = 0
    /\ viewed = {}
    /\ PageIdle
    /\ NormIdle
    /\ FetchIdle
    /\ OtherIdle
    /\ \/ /\ csvFields = <<>>
          /\ csvIn \in Texts(CsvAlphabet, MaxText)
       \/ \E table \in PlainTables \cup QuotedTables, eol \in LineEndings :
             /\ csvFields = table
             /\ csvIn = WriteCSV(table, eol)
    /\ csvCurrent = csvIn
    /\ csvRows = <<>>
    /\ csvData = <<>>
    /\ csvRuns = 0

(* The number of quotes before index i is even: index i is outside quotes *)
Unquoted(text, i) ==
    Cardinality({k \in 1..(i - 1) : text[k] = QUOTE}) % 2 = 0

(* The length of the line ending that starts at index i: LF, CR LF or a CR
   that no LF follows (0: no line ending starts there) *)
LineEndingAt(text, i) ==
    IF ~Unquoted(text, i) THEN 0
    ELSE IF text[i] = CR THEN (IF CharAt(text, i + 1) = LF THEN 2 ELSE 1)
    ELSE IF text[i] = LF /\ CharAt(text, i - 1) # CR THEN 1
    ELSE 0

ParseText ==
    /\ csvRuns = 0
    /\ csvRows' = parseCSVRows(csvCurrent)
    /\ csvData' = parseCSV(csvCurrent)
    /\ csvRuns' = 1
    /\ UNCHANGED <<csvIn, csvCurrent, csvFields, mode, otherVars, localStorage, sessionHasRecent,
                   clock, viewed, pageVars, normVars, fetchVars>>

(* The line ending at index i is written as eol and the text is parsed again *)
SwapLineEnding(i, eol) ==
    /\ csvRuns = 1
    /\ i \in 1..Len(csvCurrent)
    /\ LineEndingAt(csvCurrent, i) > 0
    /\ SubSeq(csvCurrent, i, i + LineEndingAt(csvCurrent, i) - 1) # eol
    /\ LET swapped == SubSeq(csvCurrent, 1, i - 1) \o eol
                      \o SubSeq(csvCurrent, i + LineEndingAt(csvCurrent, i), Len(csvCurrent))
       IN /\ csvCurrent' = swapped
          /\ csvRows' = parseCSVRows(swapped)
          /\ csvData' = parseCSV(swapped)
    /\ csvRuns' = 2
    /\ UNCHANGED <<csvIn, csvFields, mode, otherVars, localStorage, sessionHasRecent,
                   clock, viewed, pageVars, normVars, fetchVars>>

NextParse ==
    \/ ParseText
    \/ \E i \in 1..Len(csvCurrent), eol \in LineEndings : SwapLineEnding(i, eol)

SpecParse == InitParse /\ [][NextParse]_vars

----------------------------------------------------------------------------
(* Loading the sheet: fetchCSVData and the two page scripts that call it,
   initStepsPage of the detail page and init of the main page. The server
   answers with a status and a body, or not at all; the body is empty, blank
   or a sheet of the columns ID and Issue holding any of the tips. *)

maxRetries == 3

(* The same wait before every retry *)
backoffConstant(n) == 300

(* 300 * Math.pow(2, attempt - 1) *)
backoff(n) == 300 * 2^(n - 1)

(* clearTimeout that leaves the timer armed *)
clearTimeoutForgotten(armed, id) == armed

(* clearTimeout(id) on the set of armed timers *)
clearTimeout(armed, id) == armed \ {id}

(* No attempt is the last one *)
LastAttemptNever(n) == FALSE

(* attempt === maxRetries *)
LastAttempt(n) == n = maxRetries

Failures == {"network", "timeout", "http", "empty", "parse"}

(* err.message of a failed attempt *)
ErrorMessage(kind) ==
    CASE kind = "network" -> "Failed to fetch"
      [] kind = "timeout" -> "The operation was aborted."
      [] kind = "http" -> "HTTP error! status: 500 Internal Server Error"
      [] kind = "empty" -> "CSV file is empty"
      [] kind = "parse" -> "CSV file appears to be empty or could not be parsed."

(* The message the main page's fetchCSVData reports: 'Request timed out' for an AbortError *)
ReportedMessage(kind) ==
    IF kind = "timeout" THEN "Request timed out" ELSE ErrorMessage(kind)

IdColumn == <<"I", "D">>
IssueColumn == <<"I", "s", "s", "u", "e">>

IdText(t) == <<ToString(t)>>
IssueText(t) == IssueColumn \o <<" ", ToString(t)>>

(* The published sheet holding the tips ids, as CSV text *)
Sheet(ids) ==
    LET held == SelectSeq([t \in 1..NumTips |-> t], LAMBDA t : t \in ids) IN
    WriteCSV(<<<<Cell(IdColumn, FALSE), Cell(IssueColumn, FALSE)>>>>
                 \o [i \in 1..Len(held) |->
                        <<Cell(IdText(held[i]), FALSE), Cell(IssueText(held[i]), FALSE)>>],
             <<CR, LF>>)

Bodies == {<<>>, <<LF>>} \cup {Sheet(ids) : ids \in SUBSET TipIds}

(* if (!value): undefined and '' are falsy *)
Falsy(value) == value = Undefined \/ value = <<>>

(* The titles of the detail page *)
NoSelectionTitle == "No tip selected"
NotFoundTitleAsNoSelection == "No tip selected"
NotFoundTitle == "Tip not found"
LoadErrorTitle == "Error loading steps"
LoadingTitle == "Loading steps..."

(* The pieces of cardsContainer.innerHTML *)
WarningSign == "(U+26A0 U+FE0F)"
TryAgain == "Try Again"
ErrorMarker == <<WarningSign, " ", "Error">>

LoadingContent == <<"<div>", "<p>", "Loading tips...", "</p>", "</div>">>

showErrorState(message) ==
    <<"<div class=error-state>",
      "<div class=error-icon>", WarningSign, "</div>",
      "<h3 class=error-title>", "Unable to load tips", "</h3>",
      "<p class=error-message>", message, "</p>",
      "<button class=error-button onclick=location.reload()>", TryAgain, "</button>",
      "</div>">>

showError(message) ==
    <<"<div>",
      "<p>", WarningSign, " ", "Error", "</p>",
      "<div>", message, "</div>",
      "<p>", "Check the browser console (F12) for detailed error information.", "</p>",
      "</div>">>

NoDataMessage ==
    "No tips data found. Please check the Google Sheet URL and ensure it is published as CSV."

renderCard(tip) ==
    <<"<div class=card>", Join(Field(tip, IssueColumn)), "</div>">>

showEmptyState ==
    <<"<div class=empty-state>",
      "<h3 class=empty-title>", "No tips found", "</h3>",
      "<p class=empty-message>", "Try adjusting your search or filter criteria", "</p>",
      "</div>">>

(* filteredTips.forEach: one card per tip *)
RECURSIVE Cards(_)
Cards(tips) ==
    IF Len(tips) = 0 THEN <<>> ELSE renderCard(Head(tips)) \o Cards(Tail(tips))

renderCards(tips) ==
    IF Len(tips) = 0 THEN showEmptyState ELSE Cards(tips)

(* String.prototype.includes on the pieces of a content *)
Includes(content, marker) ==
    \E i \in 1..(Len(content) - Len(marker) + 1) :
        SubSeq(content, i, i + Len(marker) - 1) = marker

(* The detail page is left as it is *)
DetailUntouched ==
    UNCHANGED <<localStorage, sessionHasRecent, clock, viewed, pageVars>>

(* initStepsPage from the await on, fetchCSVData having returned data *)
initStepsPageResume(data) ==
    LET matches == {i \in 1..Len(data) : Field(data[i], IdColumn) = urlId} IN
    /\ allTips' = data
    /\ UNCHANGED <<container, writes, listening>>
    /\ IF matches = {}
       THEN /\ stepsError' = "We could not find that tip. It may have been removed or the link is incorrect."
            /\ docTitle' = NotFoundTitle
            /\ DetailUntouched
       ELSE LET tip == data[CHOOSE i \in matches : \A j \in matches : i <= j]
                t == CHOOSE t \in TipIds : IdText(t) = urlId
            IN \* the sheets of the model have no Steps column: parseSteps('') is []
               /\ ShowTip(t, 0)
               /\ docTitle' = IF Falsy(Field(tip, IssueColumn)) THEN "IT Tip"
                              ELSE Join(Field(tip, IssueColumn))
               /\ UNCHANGED stepsError

(* The catch block of initStepsPage *)
initStepsPageCatch(message) ==
    /\ stepsError' = "Failed to load steps: " \o message
    /\ docTitle' = LoadErrorTitle
    /\ UNCHANGED <<allTips, container, writes, listening>>
    /\ DetailUntouched

(* init of the main page from the await on, fetchCSVData having returned tips;
   shown is the content of the container then and written the contents
   assigned so far *)
initResume(tips, shown, written) ==
    /\ allTips' = tips
    /\ UNCHANGED <<docTitle, stepsError>>
    /\ DetailUntouched
    /\ IF Includes(shown, ErrorMarker)
       THEN /\ container' = shown
            /\ writes' = written
            /\ UNCHANGED listening
       ELSE IF Len(tips) = 0
       THEN /\ container' = showError(NoDataMessage)
            /\ writes' = Append(written, showError(NoDataMessage))
            /\ UNCHANGED listening
       ELSE /\ container' = renderCards(tips)
            /\ writes' = Append(written, renderCards(tips))
            /\ listening' = TRUE

(* fetchCSVData returns data and its caller runs on *)
Return(data) ==
    /\ settled' = "returned"
    /\ phase' = "done"
    /\ IF page = "steps" THEN initStepsPageResume(data)
                         ELSE initResume(data, container, writes)

(* The catch block of fetchCSVData, the attempt having failed as kind while
   the timers armed were armed; after the last attempt the caller runs on *)
Catch(kind, armed) ==
    /\ timers' = clearTimeout(armed, attempt)
    /\ outcomes' = Append(outcomes, kind)
    /\ IF LastAttempt(attempt)
       THEN /\ phase' = "done"
            /\ UNCHANGED waits
            /\ IF page = "steps"
               THEN /\ settled' = "thrown"
                    /\ initStepsPageCatch(ErrorMessage(kind))
               ELSE LET panel == showErrorState("Failed to load tips data: " \o ReportedMessage(kind))
                    IN /\ settled' = "returned"
                       /\ initResume(<<>>, panel, Append(writes, panel))
       ELSE /\ waits' = Append(waits, backoff(attempt))
            /\ phase' = "backoff"
            /\ UNCHANGED <<settled, docTitle, stepsError, container, writes, allTips, listening>>
            /\ DetailUntouched

(* The start of initStepsPage, up to the call of fetchCSVData and its first fetch *)
initStepsPageBegin ==
    /\ page = "steps"
    /\ docTitle = ""
    /\ IF Falsy(urlId)
       THEN /\ stepsError' = "No tip selected. Please choose a tip from the main list."
            /\ docTitle' = NoSelectionTitle
            /\ UNCHANGED <<phase, attempt, timers>>
       ELSE /\ docTitle' = LoadingTitle
            /\ attempt' = 1
            /\ timers' = timers \cup {1}
            /\ phase' = "headers"
            /\ UNCHANGED stepsError
    /\ UNCHANGED <<mode, otherVars, normVars, csvVars, page, urlId, fired, outcomes, waits, settled,
                   container, writes, allTips, listening>>
    /\ DetailUntouched

(* The start of init, up to the call of fetchCSVData and its first fetch *)
initBegin ==
    /\ page = "index"
    /\ container = <<>>
    /\ container' = LoadingContent
    /\ writes' = Append(writes, LoadingContent)
    /\ attempt' = 1
    /\ timers' = timers \cup {1}
    /\ phase' = "headers"
    /\ UNCHANGED <<mode, otherVars, normVars, csvVars, page, urlId, fired, outcomes, waits, settled,
                   docTitle, stepsError, allTips, listening>>
    /\ DetailUntouched

(* The response arrives, its status in the 2xx range or not: fetch resolves *)
fetchResolves(ok) ==
    /\ phase = "headers"
    /\ timers' = clearTimeout(timers, attempt)
    /\ phase' = IF ok THEN "body" ELSE "errbody"
    /\ UNCHANGED <<mode, otherVars, normVars, csvVars, page, urlId, attempt, fired, outcomes, waits,
                   settled, docTitle, stepsError, container, writes, allTips, listening>>
    /\ DetailUntouched

(* The request fails before a response arrives: fetch rejects *)
fetchRejects ==
    /\ phase = "headers"
    /\ Catch("network", timers)
    /\ UNCHANGED <<mode, otherVars, normVars, csvVars, page, urlId, attempt, fired>>

(* The body of a 2xx response has arrived: response.text() resolves *)
textResolves(body) ==
    /\ phase = "body"
    /\ IF Falsy(body) \/ Len(trim(body)) = 0
       THEN Catch("empty", timers)
       ELSE IF page = "index" /\ Len(parseCSV(body)) = 0
       THEN Catch("parse", timers)
       ELSE /\ outcomes' = Append(outcomes, "ok")
            /\ UNCHANGED <<timers, waits>>
            /\ Return(parseCSV(body))
    /\ UNCHANGED <<mode, otherVars, normVars, csvVars, page, urlId, attempt, fired>>

(* The connection breaks while the body of a 2xx response arrives *)
textRejects ==
    /\ phase = "body"
    /\ Catch("network", timers)
    /\ UNCHANGED <<mode, otherVars, normVars, csvVars, page, urlId, attempt, fired>>

(* The body of a response that is not ok has arrived or failed to:
   response.text().catch(() => '') settles and the HTTP error is thrown *)
errorTextSettles ==
    /\ phase = "errbody"
    /\ Catch("http", timers)
    /\ UNCHANGED <<mode, otherVars, normVars, csvVars, page, urlId, attempt, fired>>

(* The timer of attempt k fires: controller.abort(), which ends the request
   of attempt k if it is still in flight and touches nothing else *)
abortTimerFires(k) ==
    /\ k \in timers
    /\ fired' = fired \cup {[timer |-> k, during |-> attempt, at |-> phase]}
    /\ IF k = attempt /\ phase \in {"headers", "body"}
       THEN Catch("timeout", timers \ {k})
       ELSE IF k = attempt /\ phase = "errbody"
       THEN Catch("http", timers \ {k})
       ELSE /\ timers' = timers \ {k}
            /\ UNCHANGED <<phase, outcomes, waits, settled, docTitle, stepsError,
                           container, writes, allTips, listening>>
            /\ DetailUntouched
    /\ UNCHANGED <<mode, otherVars, normVars, csvVars, page, urlId, attempt>>

(* The backoff wait is over: the for loop goes on with the next attempt, or
   ends and fetchCSVData returns [] *)
backoffElapses ==
    /\ phase = "backoff"
    /\ IF attempt + 1 <= maxRetries
       THEN /\ attempt' = attempt + 1
            /\ timers' = timers \cup {attempt + 1}
            /\ phase' = "headers"
            /\ UNCHANGED <<outcomes, waits, settled, docTitle, stepsError, container,
                           writes, allTips, listening>>
            /\ DetailUntouched
       ELSE /\ UNCHANGED <<attempt, timers, outcomes, waits>>
            /\ Return(<<>>)
    /\ UNCHANGED <<mode, otherVars, normVars, csvVars, page, urlId, fired>>

(* A browser opens one of the two pages, the detail page with or without
   an id parameter; storage works, rejects writes or rejects every access. *)
InitFetch ==
    /\ mode \in Modes
    /\ localStorage = [k \in StorageKeys |-> NoItem]
    /\ sessionHasRecent = FALSE
    /\ clock = 0
    /\ viewed = {}
    /\ PageIdle
    /\ NormIdle
    /\ CsvIdle
    /\ OtherIdle
    /\ page \in {"steps", "index"}
    /\ urlId \in IF page = "steps" THEN {<<>>} \cup {IdText(t) : t \in TipIds} ELSE {<<>>}
    /\ phase = "idle"
    /\ attempt = 0
    /\ timers = {}
    /\ fired = {}
    /\ outcomes = <<>>
    /\ waits = <<>>
    /\ settled = "pending"
    /\ docTitle = ""
    /\ stepsError = ""
    /\ container = <<>>
    /\ writes = <<>>
    /\ allTips = <<>>
    /\ listening = FALSE

NextFetch ==
    \/ initStepsPageBegin
    \/ initBegin
    \/ \E ok \in BOOLEAN : fetchResolves(ok)
    \/ fetchRejects
    \/ \E body \in Bodies : textResolves(body)
    \/ textRejects
    \/ errorTextSettles
    \/ \E k \in 1..maxRetries : abortTimerFires(k)
    \/ backoffElapses

SpecFetch == InitFetch /\ [][NextFetch]_vars

----------------------------------------------------------------------------
(* SpecSteps: parseSteps applied to a Steps field, then to its own result
   joined with newlines, by the script of either page *)

StepsAlphabet == {"a", "1", ".", ")", "-", BULLET, " ", LF}

(* steps.join('\n') *)
RECURSIVE JoinLines(_)
JoinLines(steps) ==
    IF steps = <<>> THEN <<>>
    ELSE IF Len(steps) = 1 THEN steps[1]
         ELSE steps[1] \o <<LF>> \o JoinLines(Tail(steps))

InitSteps ==
    /\ mode = "ok"
    /\ localStorage = [k \in StorageKeys |-> NoItem]
    /\ sessionHasRecent = FALSE
    /\ clock = 0
    /\ viewed = {}
    /\ PageIdle
    /\ NormIdle
    /\ CsvIdle
    /\ page \in {"steps", "index"}
    /\ urlId = <<>>
    /\ phase = "idle"
    /\ attempt = 0
    /\ timers = {}
    /\ fired = {}
    /\ outcomes = <<>>
    /\ waits = <<>>
    /\ settled = "pending"
    /\ docTitle = ""
    /\ stepsError = ""
    /\ container = <<>>
    /\ writes = <<>>
    /\ allTips = <<>>
    /\ listening = FALSE
    /\ stepsIn \in Texts(StepsAlphabet, MaxStepText)
    /\ stepsOut = <<>>
    /\ stepsAgain = <<>>
    /\ stepsRuns = 0
    /\ IndexIdle
    /\ HandlersIdle

(* const steps = parseSteps(tip.Steps) *)
ParseSteps ==
    /\ stepsRuns = 0
    /\ stepsOut' = parseSteps(stepsIn)
    /\ stepsRuns' = 1
    /\ UNCHANGED <<stepsIn, stepsAgain, mode, localStorage, sessionHasRecent, clock,
                   viewed, pageVars, normVars, csvVars, fetchVars, indexVars, handlerVars>>

(* parseSteps(steps.join('\n')) *)
ParseStepsAgain ==
    /\ stepsRuns = 1
    /\ stepsAgain' = parseSteps(JoinLines(stepsOut))
    /\ stepsRuns' = 2
    /\ UNCHANGED <<stepsIn, stepsOut, mode, localStorage, sessionHasRecent, clock,
                   viewed, pageVars, normVars, csvVars, fetchVars, indexVars, handlerVars>>

NextSteps ==
    \/ ParseSteps
    \/ ParseStepsAgain

SpecSteps == InitSteps /\ [][NextSteps]_vars

----------------------------------------------------------------------------
(* SpecHandlers: the two handlers of the detail page that read, change and
   write a stored item, each taken as two steps, the read and the write: the
   call of saveRecentlyViewed in initStepsPage and the change listener with
   its applyAndPersist. A handler runs to completion: another handler starts,
   and a handler in progress goes on, only when every other handler in
   progress is suspended at an await. *)

(* Every handler has an await between its read and its write *)
SuspendsAlways(handler) == TRUE

(* The handler has an await (or another suspension point) between its read
   and its write: neither saveRecentlyViewed nor the change listener has *)
Suspends(handler) == FALSE

(* A handler may start *)
CanStart == \A f \in frames : Suspends(f.handler)

(* The handler call f may go on *)
CanContinue(f) == \A g \in frames \ {f} : Suspends(g.handler)

(* initStepsPage from the await on, up to the read of saveRecentlyViewed:
   let recent = loadRecentlyViewed() *)
saveRecentlyViewedReads(t, n) ==
    /\ CanStart
    /\ tipId = 0
    /\ \A f \in frames : f.handler # "saveRecentlyViewed"
    /\ frames' = frames \cup {[handler |-> "saveRecentlyViewed", tip |-> t, steps |-> n,
                               recent |-> loadRecentlyViewed]}
    /\ UNCHANGED <<mode, localStorage, sessionHasRecent, clock, viewed, pageVars, normVars,
                   csvVars, fetchVars, stepsVars, indexVars>>

(* saveRecentlyViewed from the filter on, with its write, and the rest of
   initStepsPage *)
saveRecentlyViewedWrites(f) ==
    /\ f \in frames
    /\ f.handler = "saveRecentlyViewed"
    /\ CanContinue(f)
    /\ ShowTipFrom(f.recent, f.tip, f.steps)
    /\ frames' = frames \ {f}
    /\ UNCHANGED <<mode, normVars, csvVars, fetchVars, stepsVars, indexVars>>

(* The change listener of step idx in checklist mode, up to the read of
   applyAndPersist: const checkedArray = checkboxes.map(cb => cb.checked),
   and the progress text set from it *)
changeReads(idx) ==
    /\ CanStart
    /\ idx \in 1..Len(checked)
    /\ listEnabled
    /\ lastIdx' = idx
    /\ uncaught' = FALSE
    /\ LET flipped == [checked EXCEPT ![idx] = ~checked[idx]] IN
       IF flipped[idx] /\ PreviousUnchecked(flipped, idx)
       THEN /\ checked' = [flipped EXCEPT ![idx] = FALSE]
            /\ progressText' = "Complete previous steps first."
            /\ lastEvent' = "rejected"
            /\ UNCHANGED <<completed, disabled, frames>>
       ELSE LET boxes == IF flipped[idx] THEN flipped ELSE CascadeUncheck(flipped, idx)
            IN /\ checked' = boxes
               /\ completed' = [i \in 1..Len(boxes) |->
                                   IF i = idx THEN boxes[i]
                                   ELSE IF ~flipped[idx] /\ i > idx THEN FALSE
                                   ELSE completed[i]]
               /\ disabled' = syncSequentialAvailability(boxes)
               /\ progressText' = updateProgress(CompletedCount(boxes), Len(boxes))
               /\ lastEvent' = IF flipped[idx] THEN "check" ELSE "uncheck"
               /\ frames' = frames \cup {[handler |-> "change", checkedArray |-> boxes]}
    /\ UNCHANGED <<mode, localStorage, sessionHasRecent, clock, viewed, tipId, listEnabled,
                   progressShown, normVars, csvVars, fetchVars, stepsVars, indexVars>>

(* saveChecklistState(tipId, checkedArray), the write of applyAndPersist *)
changeWrites(f) ==
    /\ f \in frames
    /\ f.handler = "change"
    /\ CanContinue(f)
    /\ LET saved == saveChecklistState(tipId, f.checkedArray) IN
       /\ localStorage' = saved.storage
       /\ uncaught' = saved.threw
    /\ frames' = frames \ {f}
    /\ UNCHANGED <<mode, sessionHasRecent, clock, viewed, tipId, checked, disabled, completed,
                   listEnabled, progressText, progressShown, lastEvent, lastIdx, normVars,
                   csvVars, fetchVars, stepsVars, indexVars>>

NextHandlers ==
    \/ \E t \in TipIds, n \in 0..MaxSteps : saveRecentlyViewedReads(t, n)
    \/ \E f \in frames : saveRecentlyViewedWrites(f)
    \/ CanStart /\ enableChecklist
    \/ CanStart /\ disableChecklist
    \/ \E idx \in 1..MaxSteps : changeReads(idx)
    \/ \E f \in frames : changeWrites(f)

SpecHandlers == Init /\ [][NextHandlers]_vars

----------------------------------------------------------------------------
(* SpecIndex: the main page from the moment the browser starts to parse it.
   script.js runs at some point of the document's life, init awaits
   fetchCSVData, whose retries are the matter of SpecFetch and which is taken
   here by its outcome (the sheet, or the failure panel and []), and the user
   types into the search box and picks categories at any time. Timers fire
   when their delay has passed, time passing in steps of the shortest delay,
   FilterDelay. *)

DebounceDelay == 300
FilterDelay == 50

DescriptionColumn == <<"D", "e", "s", "c", "r", "i", "p", "t", "i", "o", "n">>
CategoryColumn == <<"C", "a", "t", "e", "g", "o", "r", "y">>

Tip(issue, description, category) ==
    [column \in {IssueColumn, DescriptionColumn, CategoryColumn} |->
        IF column = IssueColumn THEN issue
        ELSE IF column = DescriptionColumn THEN description
        ELSE category]

(* The rows of the published sheet *)
IndexTips ==
    <<Tip(<<"A", "b">>, <<>>, <<"x">>),
      Tip(<<"b">>, <<"A">>, <<"y">>),
      Tip(<<"c">>, <<"c">>, <<"x">>)>>

(* What the user types, and the options of the category filter *)
Queries == {<<>>, <<"A">>, <<"b", " ">>}
Categories == {<<>>, <<"x">>, <<"y">>}

(* String.prototype.toLowerCase, on the letters of the model *)
toLowerCase(text) ==
    LET upperCase == <<"A", "B", "C">>
        lowerCase == <<"a", "b", "c">>
    IN [i \in 1..Len(text) |->
           IF \E k \in 1..Len(upperCase) : upperCase[k] = text[i]
           THEN lowerCase[CHOOSE k \in 1..Len(upperCase) : upperCase[k] = text[i]]
           ELSE text[i]]

(* The callback of allTips.filter in filterTips *)
Matches(tip, searchQuery, selectedCategory) ==
    LET matchesSearch ==
            \/ Falsy(searchQuery)
            \/ /\ ~Falsy(Field(tip, IssueColumn))
               /\ Includes(toLowerCase(Field(tip, IssueColumn)), searchQuery)
            \/ /\ ~Falsy(Field(tip, DescriptionColumn))
               /\ Includes(toLowerCase(Field(tip, DescriptionColumn)), searchQuery)
        matchesCategory ==
            Falsy(selectedCategory) \/ Field(tip, CategoryColumn) = selectedCategory
    IN matchesSearch /\ matchesCategory

(* allTips.filter(...) with the values filterTips read *)
Filter(tips, searchQuery, selectedCategory) ==
    SelectSeq(tips, LAMBDA tip : Matches(tip, searchQuery, selectedCategory))

showLoading == <<"<div class=loading-inline>", "Loading IT tips...", "</div>">>

(* What the main page leaves alone *)
IndexUntouched ==
    /\ UNCHANGED <<mode, normVars, csvVars, stepsVars, handlerVars, urlId, phase, attempt,
                   timers, fired, outcomes, waits, settled, docTitle, stepsError>>
    /\ DetailUntouched

(* init is called so many times, each run up to its await fetchCSVData() *)
initCalled(times) ==
    /\ inits' = inits + times
    /\ awaiting' = awaiting + times
    /\ IF times = 0 THEN UNCHANGED <<container, writes>>
       ELSE /\ container' = LoadingContent
            /\ writes' = writes \o [i \in 1..times |-> LoadingContent]

(* script.js runs: init is registered for DOMContentLoaded, a second time
   (the same function: no second listener) or called at once *)
scriptRuns ==
    /\ page = "none"
    /\ page' = "index"
    /\ onLoaded' = onLoaded \cup {"init"}
    /\ initCalled(IF readyState = "loading" THEN 0 ELSE 1)
    /\ UNCHANGED <<readyState, dispatched, filteredTips, searchValue, categoryValue,
                   listeners, searchTimers, passes, debounced, events, allTips, listening>>
    /\ IndexUntouched

(* The parser is done with the document *)
parsingEnds ==
    /\ readyState = "loading"
    /\ readyState' = "interactive"
    /\ UNCHANGED <<dispatched, onLoaded, inits, awaiting, filteredTips, searchValue,
                   categoryValue, listeners, searchTimers, passes, debounced, events,
                   page, container, writes, allTips, listening>>
    /\ IndexUntouched

(* The browser dispatches DOMContentLoaded to the listeners registered *)
DOMContentLoaded ==
    /\ readyState = "interactive"
    /\ ~dispatched
    /\ dispatched' = TRUE
    /\ initCalled(Cardinality(onLoaded))
    /\ UNCHANGED <<readyState, onLoaded, filteredTips, searchValue, categoryValue,
                   listeners, searchTimers, passes, debounced, events, page, allTips,
                   listening>>
    /\ IndexUntouched

(* The document and its resources are loaded *)
loadEnds ==
    /\ readyState = "interactive"
    /\ dispatched
    /\ readyState' = "complete"
    /\ UNCHANGED <<dispatched, onLoaded, inits, awaiting, filteredTips, searchValue,
                   categoryValue, listeners, searchTimers, passes, debounced, events,
                   page, container, writes, allTips, listening>>
    /\ IndexUntouched

(* fetchCSVData returns to a run of init, the sheet's rows or, after the
   failure panel, []: init runs on to its end. populateCategoryFilter writes
   the options anew, which selects the first one *)
fetchCSVDataReturns(ok) ==
    /\ awaiting > 0
    /\ awaiting' = awaiting - 1
    /\ LET tips == IF ok THEN IndexTips ELSE <<>>
           panel == showErrorState("Failed to load tips data: " \o ReportedMessage("network"))
           shown == IF ok THEN container ELSE panel
           written == IF ok THEN writes ELSE Append(writes, panel)
       IN /\ initResume(tips, shown, written)
          /\ IF ~Includes(shown, ErrorMarker) /\ Len(tips) > 0
             THEN /\ categoryValue' = <<>>
                  /\ filteredTips' = tips
                  /\ listeners' = listeners + 1
                  /\ searchTimers' = Append(searchTimers, <<>>)
             ELSE UNCHANGED <<categoryValue, filteredTips, listeners, searchTimers>>
    /\ UNCHANGED <<readyState, dispatched, onLoaded, inits, searchValue, passes,
                   debounced, events, page>>
    /\ UNCHANGED <<mode, normVars, csvVars, stepsVars, handlerVars, urlId, phase, attempt,
                   timers, fired, outcomes, waits, settled>>

(* filterTips is called so many times in a row: each call reads the two
   controls, shows the loading indicator and sets a deferred pass *)
filterTips(times) ==
    LET pass == [searchQuery |-> trim(toLowerCase(searchValue')),
                 selectedCategory |-> categoryValue',
                 left |-> FilterDelay]
    IN /\ passes' = passes \o [i \in 1..times |-> pass]
       /\ IF times = 0 THEN UNCHANGED <<container, writes>>
          ELSE /\ container' = showLoading
               /\ writes' = writes \o [i \in 1..times |-> showLoading]

(* The user changes the text of the search box: every input listener
   clears its timer and sets it anew *)
searchInput(value) ==
    /\ events < MaxEvents
    /\ value # searchValue
    /\ searchValue' = value
    /\ searchTimers' = [l \in 1..listeners |-> <<DebounceDelay>>]
    /\ debounced' = 0
    /\ events' = events + 1
    /\ UNCHANGED <<readyState, dispatched, onLoaded, inits, awaiting, filteredTips,
                   categoryValue, listeners, passes, page, container, writes, allTips,
                   listening>>
    /\ IndexUntouched

(* The search timer of the l-th input listener fires *)
searchTimeoutFires(l) ==
    /\ l \in 1..listeners
    /\ searchTimers[l] = <<0>>
    /\ searchTimers' = [searchTimers EXCEPT ![l] = <<>>]
    /\ UNCHANGED <<searchValue, categoryValue>>
    /\ filterTips(1)
    /\ debounced' = debounced + 1
    /\ UNCHANGED <<readyState, dispatched, onLoaded, inits, awaiting, filteredTips,
                   listeners, events, page, allTips, listening>>
    /\ IndexUntouched

(* The user picks another option of the category filter, which has options
   once populateCategoryFilter has run: every change listener calls filterTips *)
categoryChange(category) ==
    /\ events < MaxEvents
    /\ listeners >= 1
    /\ category # categoryValue
    /\ categoryValue' = category
    /\ UNCHANGED searchValue
    /\ events' = events + 1
    /\ filterTips(listeners)
    /\ UNCHANGED <<readyState, dispatched, onLoaded, inits, awaiting, filteredTips,
                   listeners, searchTimers, debounced, page, allTips, listening>>
    /\ IndexUntouched

(* The oldest deferred pass fires: the rows are filtered with the values its
   call of filterTips read, and rendered *)
filterPassFires ==
    /\ passes # <<>>
    /\ Head(passes).left = 0
    /\ filteredTips' = Filter(allTips, Head(passes).searchQuery, Head(passes).selectedCategory)
    /\ container' = renderCards(filteredTips')
    /\ writes' = Append(writes, renderCards(filteredTips'))
    /\ passes' = Tail(passes)
    /\ UNCHANGED <<readyState, dispatched, onLoaded, inits, awaiting, searchValue,
                   categoryValue, listeners, searchTimers, debounced, events, page,
                   allTips, listening>>
    /\ IndexUntouched

(* Some timer is due *)
TimerDue ==
    \/ \E l \in 1..listeners : searchTimers[l] = <<0>>
    \/ \E i \in 1..Len(passes) : passes[i].left = 0

(* Time passes, no timer being due *)
tick ==
    /\ ~TimerDue
    /\ (passes # <<>> \/ \E l \in 1..listeners : searchTimers[l] # <<>>)
    /\ searchTimers' = [l \in 1..listeners |->
                           IF searchTimers[l] = <<>> THEN <<>>
                           ELSE <<searchTimers[l][1] - FilterDelay>>]
    /\ passes' = [i \in 1..Len(passes) |-> [passes[i] EXCEPT !.left = @ - FilterDelay]]
    /\ UNCHANGED <<readyState, dispatched, onLoaded, inits, awaiting, filteredTips,
                   searchValue, categoryValue, listeners, debounced, events, page,
                   container, writes, allTips, listening>>
    /\ IndexUntouched

InitIndex ==
    /\ mode = "ok"
    /\ localStorage = [k \in StorageKeys |-> NoItem]
    /\ sessionHasRecent = FALSE
    /\ clock = 0
    /\ viewed = {}
    /\ PageIdle
    /\ NormIdle
    /\ CsvIdle
    /\ FetchIdle
    /\ StepsIdle
    /\ IndexIdle
    /\ HandlersIdle

NextIndex ==
    \/ scriptRuns
    \/ parsingEnds
    \/ DOMContentLoaded
    \/ loadEnds
    \/ \E ok \in BOOLEAN : fetchCSVDataReturns(ok)
    \/ \E value \in Queries : searchInput(value)
    \/ \E l \in 1..2 : searchTimeoutFires(l)
    \/ \E category \in Categories : categoryChange(category)
    \/ filterPassFires
    \/ tick

SpecIndex == InitIndex /\ [][NextIndex]_vars

----------------------------------------------------------------------------
(* Vocabulary of the properties *)

Steps == 1..Len(checked)

(* The checked steps form a prefix: no checked step after an unchecked one *)
IsPrefix(a) == \A i, j \in 1..Len(a) : (i < j /\ a[j]) => a[i]

(* Number of true entries *)
TrueCount(a) == Cardinality({i \in 1..Len(a) : a[i]})

(* The item stored under the key of the page's tip *)
StoredItem(storage) == storage[getChecklistStorageKey(tipId)]

(* The stored item is exactly the JSON array of a *)
StoresArray(item, a) ==
    /\ item.kind = "array"
    /\ Len(item.items) = Len(a)
    /\ \A i \in 1..Len(a) : item.items[i] = (IF a[i] THEN "true" ELSE "false")

ProgressOf(c, n) == ToString(c) \o " of " \o ToString(n) \o " completed"

EnableEvents == {"enable", "reenable"}
AcceptedEvents == {"check", "uncheck"}

----------------------------------------------------------------------------
(* C1: whenever checklist mode is enabled, the checked steps form a
   contiguous prefix from the first step: no step is checked while an earlier
   step is unchecked, whatever array storage held at the start and whatever
   enable, disable, check and uncheck events came. *)
C1_CheckedPrefix == listEnabled => IsPrefix(checked)

(* An uncheck in enabled mode that left a non-empty proper prefix of three steps *)
C1_Witness ==
    /\ listEnabled
    /\ lastEvent = "uncheck"
    /\ Len(checked) = 3
    /\ TrueCount(checked) = 1

(* C2: in enabled mode a check of step idx while an earlier step is
   unchecked is rejected: the step ends unchecked and the checked array and
   the stored items are what they were before the event. *)
C2_RejectedCheckChangesNothing ==
    [][\A idx \in 1..MaxSteps :
          (/\ checkboxChange(idx)
           /\ listEnabled
           /\ ~checked[idx]
           /\ \E j \in 1..(idx - 1) : ~checked[j])
          => (/\ ~checked'[idx]
              /\ checked' = checked
              /\ localStorage' = localStorage)]_vars

(* A rejected check of the last of three steps with only the first step done *)
C2_Witness ==
    /\ listEnabled
    /\ lastEvent = "rejected"
    /\ lastIdx = 3
    /\ checked = <<TRUE, FALSE, FALSE>>

(* What an uncheck of the checked step idx must do to the boxes and the
   progress text: every later step unchecked, the count reported is idx - 1
   (the source's 0-indexed i). *)
UncheckCascades(idx) ==
    /\ ~checked'[idx]
    /\ \A j \in (idx + 1)..Len(checked) : ~checked'[j]
    /\ TrueCount(checked') = idx - 1
    /\ progressText' = ProgressOf(idx - 1, Len(checked))

(* The array stored for the tip after the step has idx - 1 true entries *)
PersistedCountIs(idx) ==
    /\ StoredItem(localStorage').kind = "array"
    /\ Cardinality({i \in 1..Len(StoredItem(localStorage').items) :
                       StoredItem(localStorage').items[i] = "true"}) = idx - 1

(* C3 as stated: in enabled mode, unchecking the checked step idx unchecks
   every later step, and the completed count reported and persisted
   afterwards is idx - 1. *)
C3_UncheckCountPersisted ==
    [][\A idx \in 1..MaxSteps :
          (checkboxChange(idx) /\ listEnabled /\ checked[idx])
          => (UncheckCascades(idx) /\ PersistedCountIs(idx))]_vars

(* C3 amended: in enabled mode, unchecking the checked step idx unchecks
   every later step and the completed count reported afterwards is idx - 1;
   the array persisted afterwards has that count when storage works (a
   failing write leaves the stored item as it was). *)
C3_UncheckCascades ==
    [][\A idx \in 1..MaxSteps :
          (checkboxChange(idx) /\ listEnabled /\ checked[idx])
          => (/\ UncheckCascades(idx)
              /\ mode = "ok" => PersistedCountIs(idx)
              /\ mode # "ok" => localStorage' = localStorage)]_vars

(* An uncheck of the second of three steps, with working storage *)
C3_Witness ==
    /\ mode = "ok"
    /\ listEnabled
    /\ lastEvent = "uncheck"
    /\ lastIdx = 2
    /\ checked = <<TRUE, FALSE, FALSE>>
    /\ StoresArray(StoredItem(localStorage), checked)

(* C4: in enabled mode a step is disabled exactly when it is unchecked and
   is not the first unchecked step: exactly one unchecked step is enabled
   while any step is unchecked, every checked step is enabled, and with all
   steps checked no step is disabled. *)
C4_OnlyFirstUncheckedAvailable ==
    listEnabled =>
        /\ \A i \in Steps :
              disabled[i] <=> (~checked[i] /\ \E j \in 1..(i - 1) : ~checked[j])
        /\ (\E i \in Steps : ~checked[i])
              => Cardinality({i \in Steps : ~checked[i] /\ ~disabled[i]}) = 1
        /\ \A i \in Steps : checked[i] => ~disabled[i]
        /\ (\A i \in Steps : checked[i]) => \A i \in Steps : ~disabled[i]

(* After an accepted check of step 1 of three: one done, one available, one locked *)
C4_Witness ==
    /\ listEnabled
    /\ lastEvent = "check"
    /\ checked = <<TRUE, FALSE, FALSE>>
    /\ disabled = <<FALSE, FALSE, TRUE>>

(* C5: with working storage, after enabling and after every accepted check
   or uncheck the item stored under the tip's key is the array of the
   current checked values of all steps, and the progress text is
   "<c> of <n> completed" for c checked steps of n. *)
C5_PersistedAndProgress ==
    (mode = "ok" /\ lastEvent \in EnableEvents \cup AcceptedEvents) =>
        /\ StoresArray(StoredItem(localStorage), checked)
        /\ progressText = ProgressOf(TrueCount(checked), Len(checked))

(* After an accepted check of the second of three steps *)
C5_Witness ==
    /\ mode = "ok"
    /\ lastEvent = "check"
    /\ checked = <<TRUE, TRUE, FALSE>>
    /\ progressText = "2 of 3 completed"
    /\ StoredItem(localStorage).items = <<"true", "true", "false">>

(* C6: with working storage, disabling checklist mode leaves the stored
   items and the boxes as they are, and an enable that directly follows a
   disable gives every step the checked value it had before the disable. *)
C6_DisableKeepsEnableRestores ==
    [][mode = "ok" =>
          /\ disableChecklist => (localStorage' = localStorage /\ checked' = checked)
          /\ (lastEvent = "disable" /\ enableChecklist) => checked' = checked]_vars

(* Re-enabled with two of three steps restored as checked *)
C6_Witness ==
    /\ mode = "ok"
    /\ listEnabled
    /\ lastEvent = "reenable"
    /\ checked = <<TRUE, TRUE, FALSE>>

(* The checked values an item gives n steps: the stored values cut or padded
   with false to n entries, nothing valid stored counting as all false, and
   every entry after the first false forced to false. *)
FitTo(item, n) ==
    [i \in 1..n |-> item.kind = "array" /\ i <= Len(item.items) /\ item.items[i] = "true"]

ForcePrefix(a) == [i \in 1..Len(a) |-> \A j \in 1..i : a[j]]

(* C7 as stated: on enabling with n steps the state is the stored array cut
   or padded to n entries (all false when nothing valid is stored) with every
   entry after the first false forced to false, and has n entries. *)
C7_EnableFromStoredArray ==
    [][enableChecklist =>
          /\ Len(checked') = Len(checked)
          /\ checked' = ForcePrefix(FitTo(StoredItem(localStorage), Len(checked)))]_vars

(* C7 amended: the same, with a stored item that cannot be read (getItem
   throws) counting as nothing valid stored: the state is then all false. *)
C7_EnableFromReadableArray ==
    [][enableChecklist =>
          /\ Len(checked') = Len(checked)
          /\ checked' = ForcePrefix(FitTo(IF mode = "blocked" THEN NoItem
                                          ELSE StoredItem(localStorage), Len(checked)))]_vars

(* Enabled on three steps from a stored array that had to be padded or cut
   to give one checked step, the write failing so that the item is still seen *)
C7_Witness ==
    /\ mode = "quota"
    /\ lastEvent = "enable"
    /\ checked = <<TRUE, FALSE, FALSE>>
    /\ StoredItem(localStorage).kind = "array"
    /\ Len(StoredItem(localStorage).items) # 3

(* C8: normalizeSequentialState is idempotent, and it returns an array whose
   true entries form a prefix unchanged. *)
C8_NormalizeIdempotent ==
    [][ApplyNormalize =>
          /\ normRuns >= 1 => normArr' = normArr
          /\ IsPrefix(normArr) => normArr' = normArr]_vars

(* Applied twice to an array with a checked entry after an unchecked one *)
C8_Witness ==
    /\ normRuns = 2
    /\ ~IsPrefix(normIn)
    /\ normArr # normIn
    /\ TrueCount(normArr) >= 1

(* What a change event on step idx must leave in the boxes under the
   sequential rules *)
SequentialResult(boxes, idx) ==
    IF boxes[idx]
    THEN [i \in 1..Len(boxes) |-> i < idx /\ boxes[i]]
    ELSE IF \A j \in 1..(idx - 1) : boxes[j]
         THEN [boxes EXCEPT ![idx] = TRUE]
         ELSE boxes

(* C9: when every storage read and write fails, no checklist action ends in
   an uncaught error, enabling starts from the all-false state, change
   events update the boxes under the sequential rules, and nothing is
   written to storage. *)
C9_StorageFailureSwallowed ==
    [][mode = "blocked" =>
          /\ ~uncaught'
          /\ localStorage' = localStorage
          /\ sessionHasRecent' = sessionHasRecent
          /\ enableChecklist => checked' = AllFalse(Len(checked))
          /\ \A idx \in 1..MaxSteps :
                (checkboxChange(idx) /\ listEnabled)
                => checked' = SequentialResult(checked, idx)]_vars

(* With blocked storage holding an array: two steps checked in the session *)
C9_Witness ==
    /\ mode = "blocked"
    /\ listEnabled
    /\ lastEvent = "check"
    /\ checked = <<TRUE, TRUE, FALSE>>
    /\ StoredItem(localStorage).kind = "array"
    /\ progressText = "2 of 3 completed"

(* The recently-viewed list as stored *)
RecentList(storage) ==
    IF storage[getRecentlyViewedStorageKey].kind = "list"
    THEN storage[getRecentlyViewedStorageKey].items
    ELSE <<>>

RecentIds(list) == {list[i].id : i \in 1..Len(list)}

(* C10: from an empty list, after any calls of saveRecentlyViewed the stored
   list has at most 10 entries and no id twice, and a call for an id that is
   in the list leaves that id exactly once, at the front. *)
C10_RecentBoundedNoDuplicates ==
    [][\A t \in 1..MaxViews : RecordView(t) =>
          LET before == RecentList(localStorage)
              after == RecentList(localStorage')
          IN /\ Len(after) <= 10
             /\ \A i, j \in 1..Len(after) : after[i].id = after[j].id => i = j
             /\ t \in RecentIds(before) =>
                   /\ after[1].id = t
                   /\ Cardinality({i \in 1..Len(after) : after[i].id = t}) = 1]_vars

(* A full list after eleven distinct ids and two repeated views, the last
   view being of an id that was already in the list *)
C10_Witness ==
    /\ Len(RecentList(localStorage)) = 10
    /\ Cardinality(viewed) = 11
    /\ clock = 13
    /\ RecentList(localStorage)[1].viewedAt = 13
    /\ RecentList(localStorage)[1].id < 11

----------------------------------------------------------------------------
(* fetchCSVData and its callers *)

InFlight == {"headers", "body", "errbody"}

(* The attempt made last has ended *)
Ended == attempt >= 1 /\ Len(outcomes) = attempt

(* All three attempts have been made and have failed *)
AllAttemptsFailed ==
    /\ phase = "done"
    /\ Len(outcomes) = 3
    /\ \A n \in 1..3 : outcomes[n] \in Failures

(* The failure of the last attempt has reached the caller: thrown on the
   detail page; on the main page shown by showErrorState, with [] returned *)
Surfaced ==
    IF page = "steps" THEN settled = "thrown"
    ELSE /\ settled = "returned"
         /\ allTips = <<>>
         /\ \E i \in 1..Len(writes) :
               writes[i] = showErrorState("Failed to load tips data: "
                                          \o ReportedMessage(outcomes[Len(outcomes)]))

(* At most three attempts, one after the other, each but the last a failure;
   how the last one ended decides where the call stands *)
AttemptsInOrder ==
    /\ attempt <= 3
    /\ Len(outcomes) \in {attempt - 1, attempt}
    /\ \A n \in 1..(Len(outcomes) - 1) : outcomes[n] \in Failures
    /\ (attempt >= 1 /\ ~Ended) => (phase \in InFlight /\ settled = "pending")
    /\ Ended =>
          /\ outcomes[attempt] = "ok" => (phase = "done" /\ settled = "returned")
          /\ (outcomes[attempt] \in Failures /\ attempt < 3)
                => (phase = "backoff" /\ settled = "pending")
          /\ (outcomes[attempt] \in Failures /\ attempt = 3)
                => (phase = "done" /\ Surfaced)

(* C11: fetchCSVData makes at most 3 attempts per call: a failed attempt
   before the third is followed by exactly one further attempt, the first
   successful attempt ends the call, and after a failed third attempt the
   failure is surfaced (thrown on the detail page, error display and empty
   result on the main page) and no attempt follows. *)
C11_AtMostThreeAttempts ==
    [][/\ AttemptsInOrder'
       /\ phase = "backoff" => (attempt' = attempt + 1 /\ phase' = "headers")
       /\ phase = "done" => (attempt' = attempt /\ outcomes' = outcomes)]_vars

(* Three attempts were made, all failed and the call has ended *)
C11_Witness == AllAttemptsFailed /\ attempt = 3 /\ Surfaced

(* C12: every attempt is bounded by its timeout: while its request is
   pending, waiting for the response headers or for the response body, the
   attempt's abort timer is armed, so a request that never completes is
   aborted and fetchCSVData eventually returns or throws. *)
C12_PendingRequestHasTimer == phase \in InFlight => attempt \in timers

(* C13 as stated: when three consecutive attempts fail, the caller receives
   the terminal failure after backoff waits of 300ms, 600ms and 1200ms. *)
C13_ThreeBackoffWaits == AllAttemptsFailed => waits = <<300, 600, 1200>>

(* C13, amended: the wait after failed attempt n is 300ms * 2^(n-1) for
   n < 3 and no wait follows the failed third attempt: when three
   consecutive attempts fail, the caller receives the terminal failure after
   waits of 300ms and 600ms. *)
C13_BackoffBeforeRetryOnly ==
    /\ Len(waits) = Cardinality({n \in 1..Len(outcomes) : outcomes[n] \in Failures /\ n < 3})
    /\ \A n \in 1..Len(waits) : waits[n] = 300 * 2^(n - 1)
    /\ AllAttemptsFailed => waits = <<300, 600>>

(* Three attempts have failed and two waits were made *)
C13_Witness == AllAttemptsFailed /\ Len(waits) = 2

(* C14: the timeout of an attempt is local to it: an armed timer is that of
   the attempt whose request is in flight, a timer that fired did so during
   its own attempt's request, and an attempt ends as timed out only by its
   own timer. *)
C14_TimerLocalToAttempt ==
    /\ timers \subseteq {attempt}
    /\ timers # {} => phase \in InFlight
    /\ \A f \in fired : f.timer = f.during /\ f.at \in InFlight
    /\ \A n \in 1..Len(outcomes) :
          outcomes[n] = "timeout" => \E f \in fired : f.timer = n /\ f.during = n

(* The first attempt timed out and the request of the second is in flight,
   its own timer armed *)
C14_Witness ==
    /\ attempt = 2
    /\ outcomes = <<"timeout">>
    /\ phase = "headers"
    /\ timers = {2}
    /\ fired # {}

(* C15: on the main page, when all fetch attempts fail, the content shown
   once init has finished is the error panel carrying the failure message
   and the "Try Again" button. *)
C15_FailurePanelWithRetry ==
    (page = "index" /\ AllAttemptsFailed)
        => /\ Includes(container, <<TryAgain>>)
           /\ container = showErrorState("Failed to load tips data: "
                                         \o ReportedMessage(outcomes[3]))

(* Some fetched row holds the requested id *)
RowMatches == \E i \in 1..Len(allTips) : Field(allTips[i], IdColumn) = urlId

(* C16: on the detail page a missing id parameter ends in "No tip selected"
   without any fetch, an id that matches no fetched row ends in "Tip not
   found", and a failed fetch ends in "Error loading steps": each title is
   shown in its own case only, with a message shown beside it. *)
C16_DistinctErrorStates ==
    page = "steps" =>
        /\ (urlId = <<>> /\ docTitle # "") => (docTitle = "No tip selected" /\ attempt = 0)
        /\ docTitle = "No tip selected" => (urlId = <<>> /\ stepsError # "")
        /\ (settled = "returned" /\ ~RowMatches) => docTitle = "Tip not found"
        /\ docTitle = "Tip not found"
              => (urlId # <<>> /\ settled = "returned" /\ ~RowMatches /\ stepsError # "")
        /\ settled = "thrown" => docTitle = "Error loading steps"
        /\ docTitle = "Error loading steps"
              => (urlId # <<>> /\ settled = "thrown" /\ stepsError # "")

(* A sheet holding another tip was fetched for an id it does not hold *)
C16_Witness ==
    /\ page = "steps"
    /\ urlId # <<>>
    /\ settled = "returned"
    /\ Len(allTips) >= 1
    /\ ~RowMatches
    /\ docTitle = "Tip not found"

(* C17: on the detail page a successfully fetched CSV of a header and no
   data rows is surfaced as a load error, not as "Tip not found". *)
C17_HeaderOnlySheetIsLoadError ==
    (page = "steps" /\ Ended /\ phase = "done" /\ outcomes[attempt] = "ok" /\ Len(allTips) = 0)
        => (docTitle = "Error loading steps" /\ docTitle # "Tip not found")

----------------------------------------------------------------------------
(* parseCSV *)

(* The data rows of rows that hold as many fields as the header row *)
SameWidthRows(rows) == {i \in 2..Len(rows) : Len(rows[i]) = Len(rows[1])}

(* The k-th smallest number of a set *)
Nth(S, k) == CHOOSE i \in S : Cardinality({j \in S : j < i}) = k - 1

(* obj maps every trimmed header name to the trimmed field of the last column
   of that name, and nothing else *)
MapsRow(obj, header, values) ==
    /\ DOMAIN obj = {trim(header[j]) : j \in 1..Len(header)}
    /\ \A j \in 1..Len(header) :
          (\A k \in (j + 1)..Len(header) : trim(header[k]) # trim(header[j]))
              => obj[trim(header[j])] = trim(values[j])

(* C18: parseCSV outputs one mapping for each retained data row whose field
   count equals the header's, in input order, and nothing for a row whose
   field count differs. *)
C18_OneMappingPerMatchingRow ==
    csvRuns > 0 =>
        LET kept == IF Len(csvRows) = 0 THEN {} ELSE SameWidthRows(csvRows) IN
        /\ Len(csvData) = Cardinality(kept)
        /\ \A k \in 1..Len(csvData) :
              MapsRow(csvData[k], csvRows[1], csvRows[Nth(kept, k)])

(* A text was parsed in which a row of another width stands between two rows
   of the header's width *)
C18_Witness ==
    /\ csvRuns > 0
    /\ Len(csvData) >= 2
    /\ \E i, j, k \in 2..Len(csvRows) :
          /\ i < j /\ j < k
          /\ {i, k} \subseteq SameWidthRows(csvRows)
          /\ j \notin SameWidthRows(csvRows)

(* The rows a written table holds: the text of every cell; a row whose cells
   are all blank is not retained *)
TableRows(table) ==
    SelectSeq([i \in 1..Len(table) |-> [j \in 1..Len(table[i]) |-> table[i][j].text]],
              LAMBDA row : \E j \in 1..Len(row) : trim(row[j]) # <<>>)

(* C19: a comma, LF or CR between an opening and a closing quote ends neither
   a field nor a row and a doubled quote inside a quoted field gives one quote
   character: every table written as CSV, its quoted field holding any commas,
   line breaks and quotes, is read back by parseCSVRows cell by cell. *)
C19_QuotedFieldReadBack ==
    (csvRuns > 0 /\ csvFields # <<>>) => csvRows = TableRows(csvFields)

(* A row was parsed whose quoted field holds a comma, a line break and a quote *)
C19_Witness ==
    /\ csvRuns > 0
    /\ csvFields # <<>>
    /\ \E j \in 1..Len(csvFields[1]) :
          /\ csvFields[1][j].quoted
          /\ {COMMA, LF, QUOTE} \subseteq {csvFields[1][j].text[k] : k \in 1..Len(csvFields[1][j].text)}
          /\ Len(csvRows) = 1
          /\ csvRows[1][j] = csvFields[1][j].text

(* C20: writing an unquoted line ending as another of LF, CR LF and bare CR
   leaves the output of parseCSV unchanged, and no line ending, CR LF
   included, adds a row or leaves an empty row behind. *)
C20_LineEndingsInterchangeable ==
    csvRuns = 2 =>
        /\ csvData = parseCSV(csvIn)
        /\ Len(csvRows) = Len(parseCSVRows(csvIn))
        /\ \A i \in 1..Len(csvRows) : \E j \in 1..Len(csvRows[i]) : trim(csvRows[i][j]) # <<>>

(* A line ending between a header and a data row was rewritten as CR LF *)
C20_Witness ==
    /\ csvRuns = 2
    /\ csvCurrent # csvIn
    /\ Len(csvData) >= 1
    /\ \E i \in 1..(Len(csvCurrent) - 1) :
          /\ csvCurrent[i] = CR
          /\ csvCurrent[i + 1] = LF
          /\ Unquoted(csvCurrent, i)
          /\ SubSeq(csvIn, 1, i - 1) = SubSeq(csvCurrent, 1, i - 1)
          /\ CharAt(csvIn, i + 1) # LF

----------------------------------------------------------------------------
(* parseSteps *)

(* The bullet markers the specification names *)
NamedBullets == {"-", "*", BULLET}

StartsWithNumber(step) ==
    LET d == LeadingDigits(step)
    IN d >= 1 /\ Len(step) > d /\ step[d + 1] \in {".", ")"}

StartsWithBullet(class, step) ==
    Len(step) >= 2 /\ step[1] \in class /\ step[2] \in WhiteSpace

(* No step begins with a marker parseSteps would strip *)
CleanList(steps) ==
    \A i \in 1..Len(steps) :
        ~StartsWithNumber(steps[i]) /\ ~StartsWithBullet(BulletClass, steps[i])

(* C21 as stated: for every input, parsing the joined result of parseSteps
   returns that result unchanged *)
C21_ParseStepsIdempotent ==
    stepsRuns = 2 => stepsAgain = stepsOut

(* C21 amended: when no step of parseSteps(s) begins with a numeric or bullet
   marker, parsing the steps joined with newlines returns them unchanged *)
C21_CleanListUnchanged ==
    (stepsRuns = 2 /\ CleanList(stepsOut)) => stepsAgain = stepsOut

(* Two steps that lost a marker each were parsed again *)
C21_Witness ==
    /\ stepsRuns = 2
    /\ Len(stepsOut) = 2
    /\ CleanList(stepsOut)
    /\ JoinLines(stepsOut) # stepsIn
    /\ stepsAgain = stepsOut

(* The non-blank lines of a Steps field *)
NonBlankLines(text) ==
    IF text = <<>> THEN <<>>
    ELSE SelectSeq(SplitLines(text, <<>>), LAMBDA line : trim(line) # <<>>)

(* What the specification says becomes of one line *)
NamedStep(line) == trim(StripMarker(NamedBullets, StripNumber(line)))

NamedSteps(text) ==
    LET lines == NonBlankLines(text)
    IN SelectSeq([i \in 1..Len(lines) |-> NamedStep(lines[i])], LAMBDA step : step # <<>>)

(* C22: parseSteps returns, in input order, every non-blank line without one
   leading numeric marker and one leading bullet marker ("-", "*" or the
   bullet glyph, followed by whitespace), trimmed, lines with nothing left
   dropped; every returned step is non-empty and has no surrounding
   whitespace *)
C22_MarkersStripped ==
    stepsRuns >= 1 =>
        /\ stepsOut = NamedSteps(stepsIn)
        /\ \A i \in 1..Len(stepsOut) :
               stepsOut[i] # <<>> /\ trim(stepsOut[i]) = stepsOut[i]

----------------------------------------------------------------------------
(* The main page: start-up and filtering *)

(* a holds rows of b in the order they have in b *)
RECURSIVE IsSubList(_, _)
IsSubList(a, b) ==
    IF a = <<>> THEN TRUE
    ELSE IF b = <<>> THEN FALSE
    ELSE IF Head(a) = Head(b) THEN IsSubList(Tail(a), Tail(b))
    ELSE IsSubList(a, Tail(b))

(* A step that is no return of fetchCSVData to init *)
NoFetchReturn == awaiting' >= awaiting

(* C23: filtering never changes the loaded rows: every step but the return of
   the fetch leaves allTips as it is, and filteredTips is always an
   order-preserving sub-list of allTips *)
C23_FilteringKeepsRows ==
    [][/\ NoFetchReturn => allTips' = allTips
       /\ IsSubList(filteredTips', allTips')]_vars

InputEvent == searchValue' # searchValue

SearchPending == \E l \in 1..listeners : searchTimers[l] # <<>>

(* C27: a burst of input events, each arriving while the timer of the one
   before is pending, causes exactly one run of filterTips: none between the
   events of the burst, one when the timers have fired *)
C27_OneRunPerBurst ==
    [][/\ (InputEvent /\ SearchPending) => debounced = 0
       /\ (SearchPending /\ ~SearchPending') => debounced' = 1
       /\ debounced' <= 1]_vars

(* The listeners are registered and no timer is pending *)
AtRest == listeners >= 1 /\ ~SearchPending /\ passes = <<>>

(* C28: once the events have stopped and every pending timer has fired,
   filteredTips is exactly the rows of allTips that match the current search
   text and the selected category *)
C28_FilterMatchesControls ==
    AtRest => filteredTips = Filter(allTips, trim(toLowerCase(searchValue)), categoryValue)

(* C30: init is started at most once per page load, whatever readyState is
   when script.js runs: never two fetch cycles at a time, never two sets of
   search and filter listeners *)
C30_InitStartedOnce ==
    inits <= 1 /\ awaiting <= 1 /\ listeners <= 1

----------------------------------------------------------------------------
(* The recently-viewed list as a record of the latest views *)

(* The ids of a list, in its order *)
IdsOf(list) == [i \in 1..Len(list) |-> list[i].id]

(* The ids without t, in their order *)
Without(ids, t) == SelectSeq(ids, LAMBDA id : id # t)

(* The first n entries, or all of them *)
FirstOf(ids, n) == SubSeq(ids, 1, IF Len(ids) < n THEN Len(ids) ELSE n)

(* Every entry was viewed later than the entry after it *)
NewestFirst(list) == \A i \in 1..(Len(list) - 1) : list[i].viewedAt > list[i + 1].viewedAt

(* C25: from an empty list and with working storage, after every view the
   stored list holds the (at most 10) most recently viewed distinct ids,
   newest first by their latest view: the id viewed is in front, the others
   keep their order, and an 11th distinct id pushes out the id whose latest
   view is the oldest *)
C25_MostRecentDistinctIds ==
    [][\A t \in 1..MaxViews : (RecordView(t) /\ mode = "ok") =>
          LET before == RecentList(localStorage)
              after == RecentList(localStorage')
          IN /\ IdsOf(after) = FirstOf(<<t>> \o Without(IdsOf(before), t), 10)
             /\ NewestFirst(after)
             /\ after[1].viewedAt = clock'
             /\ Len(after) = (IF Cardinality(viewed') < 10 THEN Cardinality(viewed') ELSE 10)
             /\ (Len(before) = 10 /\ t \notin RecentIds(before)) =>
                    /\ before[10].id \notin RecentIds(after)
                    /\ \A i \in 1..9 : before[10].viewedAt < before[i].viewedAt]_vars

(* The eleventh distinct id has just pushed out the first one, after id 1
   had been viewed again and id 2 had become the oldest *)
C25_Witness ==
    /\ mode = "ok"
    /\ Cardinality(viewed) = 11
    /\ Len(RecentList(localStorage)) = 10
    /\ RecentList(localStorage)[1].id = 11
    /\ 2 \notin RecentIds(RecentList(localStorage))
    /\ 1 \in RecentIds(RecentList(localStorage))

----------------------------------------------------------------------------
(* Checklist mode off, and the storage keys an action touches *)

ChecklistKeys == {getChecklistStorageKey(t) : t \in TipIds}

PageLoads == \E t \in TipIds, n \in 0..MaxSteps : initStepsPage(t, n)

(* C26: checklist mode is off when the page has loaded; while it is off
   every checkbox is disabled, and a change event received then leaves its
   step unchecked and the mode off and writes nothing to storage; no step
   that starts and ends with the mode off changes a stored checklist array *)
C26_DisabledModeInert ==
    [][/\ PageLoads => ~listEnabled'
       /\ ~listEnabled' => \A i \in 1..Len(disabled') : disabled'[i]
       /\ \A idx \in 1..MaxSteps :
             (checkboxChange(idx) /\ ~listEnabled) =>
                 /\ ~checked'[idx]
                 /\ ~listEnabled'
                 /\ localStorage' = localStorage
       /\ (~listEnabled /\ ~listEnabled') =>
             \A k \in ChecklistKeys : localStorage'[k] = localStorage[k]]_vars

(* A change event on the first step, checked and stored as checked, was
   ignored after the mode had been switched off *)
C26_Witness ==
    /\ ~listEnabled
    /\ lastEvent = "ignored"
    /\ lastIdx = 1
    /\ checked = <<FALSE, TRUE, FALSE>>
    /\ disabled = <<TRUE, TRUE, TRUE>>
    /\ StoredItem(localStorage).kind = "array"
    /\ StoredItem(localStorage).items = <<"true", "true", "false">>

ChecklistAction == enableChecklist \/ disableChecklist \/ \E idx \in 1..MaxSteps : checkboxChange(idx)

(* C29: enabling, disabling and change events of the tip shown leave the
   item of every other storage key as it is, the checklist arrays of the
   other tips and the recently-viewed list; the page load, which calls
   saveRecentlyViewed, leaves every checklist array as it is *)
C29_OnlyOwnKeyTouched ==
    [][/\ ChecklistAction =>
             \A k \in StorageKeys \ {getChecklistStorageKey(tipId)} :
                 localStorage'[k] = localStorage[k]
       /\ PageLoads => \A k \in ChecklistKeys : localStorage'[k] = localStorage[k]]_vars

(* A step of the tip shown was checked and stored while another tip's key
   holds an array of an earlier session and the recently-viewed list holds
   the view *)
C29_Witness ==
    /\ mode = "ok"
    /\ lastEvent = "check"
    /\ StoredItem(localStorage).kind = "array"
    /\ Len(RecentList(localStorage)) = 1
    /\ \E t \in TipIds \ {tipId} :
          /\ localStorage[getChecklistStorageKey(t)].kind = "array"
          /\ localStorage[getChecklistStorageKey(t)].items = <<"true", "false">>

----------------------------------------------------------------------------
(* Handlers between their read and their write *)

(* C24: no handler or callback runs between the read and the write of
   saveRecentlyViewed or of the change listener: the step after a read is the
   write of the same call, made from a value that is still the current one,
   and no update is lost, the array stored by working storage being the
   boxes as they are once the write is done *)
C24_ReadThenOwnWrite ==
    [][/\ frames # {} =>
             /\ frames' = {}
             /\ \A f \in frames :
                   /\ f.handler = "change" => f.checkedArray = checked
                   /\ f.handler = "saveRecentlyViewed" => f.recent = loadRecentlyViewed
       /\ Cardinality(frames') <= 1
       /\ (frames' = {} /\ mode = "ok" /\ lastEvent' \in AcceptedEvents) =>
             StoresArray(StoredItem(localStorage'), checked')]_vars

(* Two steps were checked one after the other and both are stored *)
C24_Witness ==
    /\ frames = {}
    /\ mode = "ok"
    /\ lastEvent = "check"
    /\ lastIdx = 2
    /\ checked = <<TRUE, TRUE, FALSE>>
    /\ StoredItem(localStorage).items = <<"true", "true", "false">>
    /\ Len(RecentList(localStorage)) = 1

====
